---------------------------- MODULE Spec2Model ----------------------------
(***************************************************************************)
(* A model of eyeball-generator-native.js: the seeded random stream        *)
(* (SeededRandom), the attribute generator and trait descriptor            *)
(* (Eyeball.generateProperties / generateMetadata), the render pipeline    *)
(* (Eyeball.draw and its passes) and the gallery functions that create     *)
(* and animate instances.                                                  *)
(*                                                                         *)
(* Numbers.  The stream state is an integer in [0, 2^32); it is kept as a  *)
(* pair <<hi, lo>> of 16-bit limbs so that every intermediate product      *)
(* stays below 2^31, and the recurrence is exact.                          *)
(* The value next() returns, state / 2^32, is the same pair read as the    *)
(* numerator of a fraction over 2^32.  Every other real number is a        *)
(* fixed-point integer in a unit named where it is introduced (hundredths  *)
(* of a pixel, tenths of a score, ...), obtained by flooring the exact     *)
(* value min + state * (max - min) / 2^32.                                 *)
(***************************************************************************)
EXTENDS Integers, Sequences, FiniteSets, TLC

(***************************************************************************)
(* Bounds of the model.                                                    *)
(***************************************************************************)
\* calls made on each stream of the stream specification
MaxCalls == 2
\* Eyeball objects created in one run of the gallery
MaxEyeballs == 2
\* frames drawn per eyeball of the gallery
MaxGalleryFrames == 1
\* frames drawn per eyeball that is alone on the page
MaxFrames == 2
\* frames drawn for the eyeballs that are followed until the laser beam
\* dematerializes
MaxAnimFrames == 195

\* values of Math.floor(Math.random() * 1000000) tried in the gallery: one
\* eyeball with glow, laser and aura and two with no effect, the second
\* with a veined sclera
GallerySeeds == {42, 3137, 10569}

\* one seed for each of the 32 combinations of the five effect flags;
\* together they take every socket shape, sclera texture, iris shape, iris
\* pattern, pupil shape and style
RenderSeeds ==
    {0, 1, 3, 5, 6, 7, 8, 9, 11, 13, 22, 36, 42, 306, 687, 1113, 1545, 2318,
     5007, 5008, 5009, 5011, 5047, 5049, 5077, 5078, 5088, 5132, 5214, 5267,
     5516, 5540}

\* the seeds whose animation is followed for MaxAnimFrames: a laser eyeball
\* (glow, laser and particles; diamond socket, iris and pupil)
LongSeeds == {31634}

\* a seed with the fractal iris pattern and an iris below 46.3, whose fourth
\* fractal layer is under the floor of 5 (irisSize 43.0, no flag set)
FractalSeeds == {2223}

\* seeds of the single-eyeball specification
SoloSeeds == RenderSeeds \cup LongSeeds \cup FractalSeeds

\* seeds of the streams of the stream specification; the first next() of
\* the stream of 653637408 returns (2^32 - 1) / 2^32
StreamSeeds == {42, 653637408}

(***************************************************************************)
(* The state.                                                              *)
(***************************************************************************)
VARIABLES
    instances,       \* every Eyeball object created so far, by identity
    locals,          \* per instance: the local powerLevel of its construction
                     \* and the object as the constructor left it
    canvas,          \* per instance: the calls of the last draw on its
                     \* canvas and the depth of the context's saved stack
    eyeballs,        \* the global list eyeballs (identities)
    animationLoops,  \* the global list animationLoops (request ids)
    pending,         \* the animation-frame callbacks requested and not run
    nextHandle,      \* the id the next requestAnimationFrame returns
    replay,          \* the calls of the frame that a second draw at the same
                     \* elapsed time repeats, and its eyeball
    streams,         \* SeededRandom objects driven on their own, each with
                     \* the seed it was constructed from
    calls,           \* per stream: the calls made on it, each with the seed
                     \* field it found
    rets,            \* per stream: what each call returned and the seed
                     \* field it left
    seedForm         \* the seed input of the page: the text submitted to
                     \* the last generateFromSeed call, the value of the
                     \* field after it and whether the call alerted

vars == <<instances, locals, canvas, eyeballs, animationLoops, pending,
          nextHandle, replay, streams, calls, rets, seedForm>>

galleryVars == <<instances, locals, canvas, eyeballs, animationLoops, pending,
                 nextHandle>>

streamVars == <<streams, calls, rets>>

(***************************************************************************)
(* 32-bit words as limb pairs.                                             *)
(***************************************************************************)
Limb == 65536

\* the word of a non-negative integer below 2^31
W32(n) == <<n \div Limb, n % Limb>>

\* floor(s * k / 2^32) for a word s and 0 <= k < 2^15
MulShift(s, k) == (s[1] * k + ((s[2] * k) \div Limb)) \div Limb

\* s < t on words
WordLess(s, t) == s[1] < t[1] \/ (s[1] = t[1] /\ s[2] < t[2])

(***************************************************************************)
(* class SeededRandom.  A stream is the record [seed |-> word].            *)
(***************************************************************************)
\* constructor(seed)
SeededRandom(seed) == [seed |-> W32(seed)]

\* the multiplier 1664525 = 25 * 2^16 + 26125 and the increment
\* 1013904223 = 15470 * 2^16 + 62303 of line 12, as limbs
LcgMulHi == 25
LcgMulLo == 26125
LcgIncHi == 15470
LcgIncLo == 62303

\* the recurrence without the carry of the low limb into the high one;
\* C13_Recurrence tells it from line 12
Lcg_noCarry(seed) ==
    LET lo == seed[2] * LcgMulLo + LcgIncLo
        hi == seed[1] * LcgMulLo + seed[2] * LcgMulHi + LcgIncHi
    IN  <<hi % Limb, lo % Limb>>

\* (seed * 1664525 + 1013904223) % 4294967296 on words
Lcg(seed) ==
    LET lo == seed[2] * LcgMulLo + LcgIncLo
        hi == seed[1] * LcgMulLo + seed[2] * LcgMulHi + (lo \div Limb) + LcgIncHi
    IN  <<hi % Limb, lo % Limb>>

\* the stream and the value after this.seed was assigned word
Stepped(rng, word) == [rng |-> [rng EXCEPT !.seed = word], value |-> word]

\* next() reading one seed shared by all streams (a static field) instead
\* of this.seed; C1_StreamsDeterministic tells it from next()
SeededRandom_next_shared(rng) ==
    Stepped(rng, Lcg(IF streams # <<>> THEN streams[1].rng.seed
                                       ELSE rng.seed))

\* next(): this.seed = (this.seed * 1664525 + 1013904223) % 4294967296,
\* returning the new stream and the value this.seed / 4294967296 (the word
\* is the numerator over 2^32)
SeededRandom_next(rng) == Stepped(rng, Lcg(rng.seed))

\* min + value * (max - min) for the value of a next() call, in the unit of
\* min and max (max - min < 2^15), floored to that unit
Scaled(value, min, max) == min + MulShift(value, max - min)

\* range(min, max): min + this.next() * (max - min); drawn is the result of
\* the next() call
RangeOf(drawn, min, max) ==
    [rng |-> drawn.rng, value |-> Scaled(drawn.value, min, max)]

SeededRandom_range(rng, min, max) == RangeOf(SeededRandom_next(rng), min, max)

\* the low 32 bits of s * k for a word s and 0 <= k < 2^15: the fraction
\* of s * k / 2^32, as a word
MulFraction(s, k) ==
    LET lo == s[2] * k
    IN  <<(s[1] * k + (lo \div Limb)) % Limb, lo % Limb>>

\* Math.floor of the double nearest to x + f / 2^32, for an integer x with
\* -2^21 < x < 2^31 and a fraction word f.  A double holds 53 significant
\* bits: below 2^21 the sum is exact; for 2^e <= x < 2^(e+1), e >= 21, it is
\* rounded to the nearest multiple of 2^(e-52) (ties to even), which is
\* x + 1 when f / 2^32 >= 1 - 2^(e-53)
FloorOfSum(x, f) ==
    IF x < 2097152
       THEN x
       ELSE LET e == CHOOSE n \in 21..30 : 2^n <= x /\ x < 2 * 2^n
            IN  IF WordLess(f, <<Limb - 1, Limb - 2^(e - 21)>>) THEN x
                                                                ELSE x + 1

\* int(min, max): Math.floor(this.range(min, max + 1)), min >= 0; drawn is
\* the result of the next() call of range, whose product
\* this.next() * (max + 1 - min) is exact and whose sum with min is rounded
IntOf(drawn, min, max) ==
    [rng   |-> drawn.rng,
     value |-> FloorOfSum(min + MulShift(drawn.value, max + 1 - min),
                          MulFraction(drawn.value, max + 1 - min))]

SeededRandom_int(rng, min, max) == IntOf(SeededRandom_next(rng), min, max)

\* choice(array): array[this.int(0, array.length - 1)]; JavaScript arrays
\* are 0-based, sequences 1-based; drawn is the result of the int() call
ChoiceOf(drawn, array) == [rng |-> drawn.rng, value |-> array[drawn.value + 1]]

SeededRandom_choice(rng, array) ==
    ChoiceOf(SeededRandom_int(rng, 0, Len(array) - 1), array)

\* boolean(probability): this.next() < probability.  The probability is
\* given as the word ceil(probability * 2^32): for a probability that is no
\* multiple of 2^-32, state / 2^32 < probability iff state < that word.
\* drawn is the result of the next() call.
BooleanOf(drawn, probability) ==
    [rng |-> drawn.rng, value |-> WordLess(drawn.value, probability)]

\* boolean drawing twice and testing the second value; C14_OneStepPerCall
\* tells it from boolean
SeededRandom_boolean_twoDraws(rng, probability) ==
    BooleanOf(SeededRandom_next(SeededRandom_next(rng).rng), probability)

SeededRandom_boolean(rng, probability) ==
    BooleanOf(SeededRandom_next(rng), probability)

RECURSIVE StreamWords(_, _)
\* the values of the next n calls of next() on the stream, n >= 1, in
\* order (the second half continues from the last word of the first)
StreamWords(rng, n) ==
    IF n = 1 THEN <<SeededRandom_next(rng).value>>
    ELSE LET first == StreamWords(rng, n \div 2)
         IN  IF first = <<>> THEN first
             ELSE first \o StreamWords([rng EXCEPT !.seed = first[Len(first)]],
                                       n - n \div 2)

(***************************************************************************)
(* class Eyeball: construction.                                            *)
(* Units: sizes and colour channels in hundredths, animationEnergy and     *)
(* intensity in 1/10000, animationSpeed in 1/100000, trait scores in       *)
(* tenths (one decimal, as printed).                                       *)
(***************************************************************************)
\* the probabilities of lines 186-190 as words ceil(p * 2^32)
ProbGlow      == <<39321, 39322>>   \* 0.6
ProbLaser     == <<19660, 52429>>   \* 0.3
ProbAura      == <<26214, 26215>>   \* 0.4
ProbParticles == <<32768, 0>>       \* 0.5
ProbLightning == <<13107, 13108>>   \* 0.2

SocketShapes   == <<"circle", "oval", "diamond", "almond", "star", "hexagon">>
ScleraTextures == <<"smooth", "veined", "cloudy", "metallic", "crystalline">>
IrisShapes     == <<"circle", "oval", "star", "diamond", "octagon", "spiral">>
IrisPatterns   == <<"solid", "radial", "spiral", "geometric", "fractal",
                    "crystalline", "void">>
PupilShapes    == <<"circle", "slit", "star", "cross", "diamond", "multiple",
                    "void">>
Styles         == <<"organic", "mechanical", "cosmic", "demonic", "angelic",
                    "digital", "crystal">>

\* colorPalettes of generateColor
colorPalettes ==
    [socket |-> << <<20, 20, 30>>, <<40, 0, 60>>, <<60, 20, 0>>, <<0, 30, 50>>,
                   <<80, 80, 80>>, <<30, 30, 30>>, <<10, 50, 30>> >>,
     sclera |-> << <<255, 255, 255>>, <<240, 240, 255>>, <<255, 240, 240>>,
                   <<200, 255, 200>>, <<50, 50, 60>>, <<100, 100, 120>>,
                   <<80, 80, 100>>, <<255, 200, 150>> >>,
     iris   |-> << <<0, 150, 255>>, <<255, 0, 150>>, <<150, 255, 0>>,
                   <<255, 150, 0>>, <<200, 0, 200>>, <<0, 255, 200>>,
                   <<255, 255, 0>>, <<150, 0, 255>>, <<255, 100, 100>>,
                   <<100, 255, 100>>, <<100, 100, 255>>, <<255, 0, 0>>,
                   <<0, 255, 0>>, <<0, 0, 255>>, <<255, 255, 255>>,
                   <<50, 255, 150>> >>,
     pupil  |-> << <<0, 0, 0>>, <<20, 0, 40>>, <<40, 0, 0>>, <<0, 20, 40>>,
                   <<255, 255, 255>>, <<255, 0, 0>>, <<0, 255, 255>>,
                   <<255, 255, 0>> >>,
     effect |-> << <<255, 0, 255>>, <<0, 255, 255>>, <<255, 255, 0>>,
                   <<255, 100, 0>>, <<100, 255, 100>>, <<255, 50, 150>>,
                   <<150, 100, 255>>, <<255, 200, 0>> >>,
     laser  |-> << <<255, 0, 0>>, <<0, 255, 0>>, <<0, 100, 255>>,
                   <<255, 0, 255>>, <<255, 255, 0>>, <<255, 100, 0>>,
                   <<100, 255, 255>> >>,
     aura   |-> << <<100, 0, 255>>, <<255, 0, 100>>, <<0, 255, 100>>,
                   <<255, 200, 0>>, <<0, 200, 255>>, <<255, 0, 200>>,
                   <<200, 255, 0>> >>]

\* the channel left as the sum of base and jitter; C11_AttributeRanges
\* tells it from constrain
constrain_unclamped(val, min, max) == val

\* constrain(val, min, max) of generateColor
constrain(val, min, max) ==
    LET lower == IF val > min THEN val ELSE min
    IN  IF lower < max THEN lower ELSE max

\* the colour of a palette entry c and three jitters j1, j2, j3, each
\* channel clamped to [0, 255]; hundredths
ColorOf(c, j1, j2, j3) ==
    [rng   |-> j3.rng,
     value |-> <<constrain(c.value[1] * 100 + j1.value, 0, 25500),
                 constrain(c.value[2] * 100 + j2.value, 0, 25500),
                 constrain(c.value[3] * 100 + j3.value, 0, 25500)>>]

\* generateColor drawing the three jitters before the palette entry;
\* C12_DrawOrder tells it from the order of lines 375-383
Eyeball_generateColor_jitterFirst(rng, type) ==
    LET palette == IF type \in DOMAIN colorPalettes
                      THEN colorPalettes[type] ELSE colorPalettes.iris
        j1 == SeededRandom_range(rng, -3000, 3000)
        j2 == SeededRandom_range(j1.rng, -3000, 3000)
        j3 == SeededRandom_range(j2.rng, -3000, 3000)
        c  == SeededRandom_choice(j3.rng, palette)
    IN  [rng |-> c.rng, value |-> ColorOf(c, j1, j2, j3).value]

\* generateColor(type): a palette entry chosen from the stream plus three
\* jitters range(-30, 30)
Eyeball_generateColor(rng, type) ==
    LET palette == IF type \in DOMAIN colorPalettes
                      THEN colorPalettes[type] ELSE colorPalettes.iris
        c  == SeededRandom_choice(rng, palette)
        j1 == SeededRandom_range(c.rng, -3000, 3000)
        j2 == SeededRandom_range(j1.rng, -3000, 3000)
        j3 == SeededRandom_range(j2.rng, -3000, 3000)
    IN  ColorOf(c, j1, j2, j3)

\* getColorName with the test of line 333 (r > 150, "Ruby") made first;
\* C26_FirstMatchWins tells it from the order of lines 319-337
Eyeball_getColorName_rubyFirst(rgb) ==
    LET r == rgb[1]
        g == rgb[2]
        b == rgb[3]
    IN  IF r > 15000 THEN "Ruby"
        ELSE IF r < 5000 /\ g < 5000 /\ b < 5000 THEN "Obsidian"
        ELSE IF r < 10000 /\ g > 20000 /\ b < 10000 THEN "Emerald"
        ELSE IF r < 10000 /\ g < 10000 /\ b > 20000 THEN "Sapphire"
        ELSE IF r < 10000 /\ g > 20000 /\ b > 20000 THEN "Turquoise"
        ELSE IF r > 10000 /\ g > 15000 /\ b < 10000 THEN "Jade"
        ELSE IF r < 10000 /\ g > 10000 /\ b > 15000 THEN "Azure"
        ELSE IF r > 10000 /\ g < 10000 /\ b > 15000 THEN "Violet"
        ELSE IF r > 10000 /\ g > 10000 /\ b > 10000 THEN "Silver"
        ELSE IF g > 15000 THEN "Verdant"
        ELSE IF b > 15000 THEN "Cobalt"
        ELSE "Mystic"

\* getColorName(rgb): the tests of lines 319-335 in order, each returning
\* its label when it holds; "Mystic" when none does (channels in hundredths)
Eyeball_getColorName(rgb) ==
    LET r == rgb[1]
        g == rgb[2]
        b == rgb[3]
    IN  IF r > 20000 /\ g > 20000 /\ b > 20000 THEN "Ivory"
        ELSE IF r < 5000 /\ g < 5000 /\ b < 5000 THEN "Obsidian"
        ELSE IF r > 20000 /\ g < 10000 /\ b < 10000 THEN "Crimson"
        ELSE IF r < 10000 /\ g > 20000 /\ b < 10000 THEN "Emerald"
        ELSE IF r < 10000 /\ g < 10000 /\ b > 20000 THEN "Sapphire"
        ELSE IF r > 20000 /\ g > 20000 /\ b < 10000 THEN "Golden"
        ELSE IF r > 20000 /\ g < 10000 /\ b > 20000 THEN "Amethyst"
        ELSE IF r < 10000 /\ g > 20000 /\ b > 20000 THEN "Turquoise"
        ELSE IF r > 15000 /\ g > 10000 /\ b < 10000 THEN "Copper"
        ELSE IF r > 10000 /\ g > 15000 /\ b < 10000 THEN "Jade"
        ELSE IF r < 10000 /\ g > 10000 /\ b > 15000 THEN "Azure"
        ELSE IF r > 15000 /\ g < 10000 /\ b > 10000 THEN "Rose"
        ELSE IF r > 10000 /\ g < 10000 /\ b > 15000 THEN "Violet"
        ELSE IF r > 10000 /\ g > 10000 /\ b > 10000 THEN "Silver"
        ELSE IF r > 15000 THEN "Ruby"
        ELSE IF g > 15000 THEN "Verdant"
        ELSE IF b > 15000 THEN "Cobalt"
        ELSE "Mystic"

\* a lookup in an object literal: a missing key reads undefined
Lookup(table, key) == IF key \in DOMAIN table THEN table[key] ELSE "undefined"

portalTypes ==
    [circle |-> "Eternal Circle", oval |-> "Mystic Oval",
     diamond |-> "Crystal Diamond", almond |-> "Ancient Almond",
     star |-> "Stellar Gateway", hexagon |-> "Sacred Hexagon"]

\* the table without its entry for cloudy; C18_LabelsBijective tells it from
\* lines 229-235
scleraNames_noCloudy ==
    [smooth |-> "Pure Essence", veined |-> "Bloodbound Veins",
     metallic |-> "Liquid Metal", crystalline |-> "Crystal Matrix"]

scleraNames ==
    [smooth |-> "Pure Essence", veined |-> "Bloodbound Veins",
     cloudy |-> "Ethereal Mist", metallic |-> "Liquid Metal",
     crystalline |-> "Crystal Matrix"]

irisPatterns ==
    [solid |-> "Void Core", radial |-> "Stellar Burst",
     spiral |-> "Cosmic Spiral", geometric |-> "Sacred Geometry",
     fractal |-> "Infinite Fractal", crystalline |-> "Crystal Lattice",
     void |-> "Abyssal Void"]

pupilTypes ==
    [circle |-> "Eternal Portal", slit |-> "Dragon Slit",
     star |-> "Celestial Star", cross |-> "Divine Cross",
     diamond |-> "Soul Diamond", multiple |-> "Trinity Gates",
     void |-> "Chaos Void"]

essenceTypes ==
    [organic |-> "Living Essence", mechanical |-> "Cyber Matrix",
     cosmic |-> "Stellar Origin", demonic |-> "Infernal Soul",
     angelic |-> "Divine Light", digital |-> "Data Stream",
     crystal |-> "Crystal Core"]

\* Math.round(x * 10) / 10 for x = num / den in [0, 1], in tenths
RoundTenth(num, den) == (num * 20 + den) \div (2 * den)

\* Number.toFixed(1) of a value given in hundredths, in tenths
toFixed1(hundredths) == (hundredths + 5) \div 10

\* the labels with the laser listed first; C10_PowersListed tells it from
\* the order of lines 277-281
Eyeball_powers_laserFirst(this) ==
    (IF this.hasLaser THEN <<"Laser Beam">> ELSE <<>>)
    \o (IF this.hasGlow THEN <<"Ethereal Glow">> ELSE <<>>)
    \o (IF this.hasAura THEN <<"Energy Aura">> ELSE <<>>)
    \o (IF this.hasParticles THEN <<"Particle Storm">> ELSE <<>>)
    \o (IF this.hasLightning THEN <<"Lightning Strike">> ELSE <<>>)

\* the labels pushed to powers, lines 277-282
Eyeball_powers(this) ==
    (IF this.hasGlow THEN <<"Ethereal Glow">> ELSE <<>>)
    \o (IF this.hasLaser THEN <<"Laser Beam">> ELSE <<>>)
    \o (IF this.hasAura THEN <<"Energy Aura">> ELSE <<>>)
    \o (IF this.hasParticles THEN <<"Particle Storm">> ELSE <<>>)
    \o (IF this.hasLightning THEN <<"Lightning Strike">> ELSE <<>>)

\* the trait pushed only when there is a power; C8_SixTraits tells it from
\* lines 284-296
ArcanePowers_onlyIfAny(powers, powerLevel) ==
    IF Len(powers) > 0
       THEN << [name  |-> "Arcane Powers",
                value |-> [words |-> powers, sep |-> " + ",
                           score |-> toFixed1(powerLevel)]] >>
       ELSE << >>

\* the trait without the else branch of line 294, the join made of an empty
\* list too; C9_PowersFallback tells it from lines 284-296
ArcanePowers_alwaysJoined(powers, powerLevel) ==
    << [name  |-> "Arcane Powers",
        value |-> [words |-> powers, sep |-> " + ",
                   score |-> toFixed1(powerLevel)]] >>

\* what lines 284-296 push to traits: the joined labels and the printed
\* power level, or the literal "Pure Essence (1.0)"
ArcanePowers(powers, powerLevel) ==
    IF Len(powers) > 0
       THEN << [name  |-> "Arcane Powers",
                value |-> [words |-> powers, sep |-> " + ",
                           score |-> toFixed1(powerLevel)]] >>
       ELSE << [name  |-> "Arcane Powers",
                value |-> [words |-> <<"Pure Essence">>, sep |-> " ",
                           score |-> 10]] >>

\* A trait value is a template string `${words} (${score})`: the record
\* [words, sep, score] holds the words that are joined by sep and the
\* printed score in tenths.
\*
\* generateMetadata(): the six traits, pushed in this order.  The Sclera
\* Essence score and, when a power is present, the Arcane Powers bonus are
\* drawn from the stream.  powerLevel is the local of line 285 in
\* hundredths (0 when the else branch runs).
Eyeball_generateMetadata(this) ==
    LET portalRarity == RoundTenth(this.socketSize - 8000, 6000)
        scleraScore  == SeededRandom_range(this.rng, 100, 1000)
        irisRarity   == RoundTenth(this.irisSize - 4000, 4000)
        pupilRarity  == RoundTenth(this.pupilSize - 1500, 2000)
        powers       == Eyeball_powers(this)
        bonus        == SeededRandom_range(scleraScore.rng, 0, 200)
        powerLevel   == Len(powers) * 200 + bonus.value
        traits ==
          << [name  |-> "Portal Frame",
              value |-> [words |-> <<Lookup(portalTypes, this.socketShape)>>,
                         sep |-> " ", score |-> portalRarity]],
             [name  |-> "Sclera Essence",
              value |-> [words |-> <<Eyeball_getColorName(this.scleraColor),
                                     Lookup(scleraNames, this.scleraTexture)>>,
                         sep |-> " ", score |-> toFixed1(scleraScore.value)]],
             [name  |-> "Iris Constellation",
              value |-> [words |-> <<Eyeball_getColorName(this.irisColor1),
                                     Lookup(irisPatterns, this.irisPattern)>>,
                         sep |-> " ", score |-> irisRarity]],
             [name  |-> "Pupil Gate",
              value |-> [words |-> <<Eyeball_getColorName(this.pupilColor),
                                     Lookup(pupilTypes, this.pupilShape)>>,
                         sep |-> " ", score |-> pupilRarity]] >>
          \o ArcanePowers(powers, powerLevel)
          \o << [name  |-> "Essence Type",
                 value |-> [words |-> <<Lookup(essenceTypes, this.style)>>,
                            sep |-> " ",
                            score |-> (this.intensity + 50) \div 100]] >>
    IN  [this |-> [metadata |-> [traits |-> traits],
                   rng |-> IF Len(powers) > 0 THEN bonus.rng
                                              ELSE scleraScore.rng] @@ this,
         powerLevel |-> IF Len(powers) > 0 THEN powerLevel ELSE 0]

\* the attributes of generateProperties in the order of lines 165-202, each
\* with the stream call that draws it
AttributeOrder ==
    << [name |-> "socketShape", draw |-> "choice", array |-> SocketShapes],
       [name |-> "socketSize", draw |-> "range", min |-> 8000, max |-> 14000],
       [name |-> "socketColor", draw |-> "color", type |-> "socket"],
       [name |-> "scleraColor", draw |-> "color", type |-> "sclera"],
       [name |-> "scleraTexture", draw |-> "choice", array |-> ScleraTextures],
       [name |-> "irisSize", draw |-> "range", min |-> 4000, max |-> 8000],
       [name |-> "irisShape", draw |-> "choice", array |-> IrisShapes],
       [name |-> "irisColor1", draw |-> "color", type |-> "iris"],
       [name |-> "irisColor2", draw |-> "color", type |-> "iris"],
       [name |-> "irisPattern", draw |-> "choice", array |-> IrisPatterns],
       [name |-> "pupilSize", draw |-> "range", min |-> 1500, max |-> 3500],
       [name |-> "pupilShape", draw |-> "choice", array |-> PupilShapes],
       [name |-> "pupilColor", draw |-> "color", type |-> "pupil"],
       [name |-> "hasGlow", draw |-> "boolean", probability |-> ProbGlow],
       [name |-> "hasLaser", draw |-> "boolean", probability |-> ProbLaser],
       [name |-> "hasAura", draw |-> "boolean", probability |-> ProbAura],
       [name |-> "hasParticles", draw |-> "boolean",
        probability |-> ProbParticles],
       [name |-> "hasLightning", draw |-> "boolean",
        probability |-> ProbLightning],
       [name |-> "animationEnergy", draw |-> "range", min |-> 1000,
        max |-> 10000],
       [name |-> "effectColor", draw |-> "color", type |-> "effect"],
       [name |-> "laserColor", draw |-> "color", type |-> "laser"],
       [name |-> "auraColor", draw |-> "color", type |-> "aura"],
       [name |-> "style", draw |-> "choice", array |-> Styles],
       [name |-> "intensity", draw |-> "range", min |-> 5000, max |-> 15000] >>

\* the right-hand side of one assignment of generateProperties
AttributeDraw(rng, attribute) ==
    CASE attribute.draw = "choice" ->
           SeededRandom_choice(rng, attribute.array)
      [] attribute.draw = "range" ->
           SeededRandom_range(rng, attribute.min, attribute.max)
      [] attribute.draw = "boolean" ->
           SeededRandom_boolean(rng, attribute.probability)
      [] attribute.draw = "color" ->
           Eyeball_generateColor(rng, attribute.type)

\* v = v holds of every value; as the test of an IF it has v evaluated
\* before the branch is, which keeps the evaluation of a long sequence of
\* dependent stream calls shallow
Evaluated(v) == v = v

RECURSIVE AssignAttributes(_, _, _)
\* the assignments lo..hi of lines 165-202, in order (the first half, then
\* the second on its result)
AssignAttributes(this, lo, hi) ==
    IF lo = hi
       THEN LET drawn == AttributeDraw(this.rng, AttributeOrder[lo])
            IN  (AttributeOrder[lo].name :> drawn.value)
                  @@ [this EXCEPT !.rng = drawn.rng]
       ELSE LET first == AssignAttributes(this, lo, (lo + hi) \div 2)
            IN  IF Evaluated(first)
                   THEN AssignAttributes(first, (lo + hi) \div 2 + 1, hi)
                   ELSE first

\* generateProperties(): the attributes, drawn from the stream in the order
\* of lines 165-202, then generateMetadata()
Eyeball_generateProperties(this) ==
    Eyeball_generateMetadata(AssignAttributes(this, 1, Len(AttributeOrder)))

\* the constructor with its stream seeded from the seed and the number of
\* eyeballs made before it; C2_TwinsAgree tells it from the constructor
Eyeball_counted(seed, canvasWidth, canvasHeight) ==
    LET props == Eyeball_generateProperties(
                   [w |-> canvasWidth, h |-> canvasHeight,
                    centerX |-> canvasWidth \div 2,
                    centerY |-> canvasHeight \div 2,
                    seed |-> seed,
                    rng |-> SeededRandom(seed + Len(instances))])
        animationSpeed == SeededRandom_range(props.this.rng, 1000, 5000)
    IN  [this |-> [time |-> 0, animationSpeed |-> animationSpeed.value,
                   rng |-> animationSpeed.rng] @@ props.this,
         powerLevel |-> props.powerLevel]

\* the constructor with one more draw before animationSpeed;
\* C28_ConstructionDraws tells it from lines 156-160
Eyeball_extraDraw(seed, canvasWidth, canvasHeight) ==
    LET props == Eyeball_generateProperties(
                   [w |-> canvasWidth, h |-> canvasHeight,
                    centerX |-> canvasWidth \div 2,
                    centerY |-> canvasHeight \div 2,
                    seed |-> seed, rng |-> SeededRandom(seed)])
        animationSpeed ==
          SeededRandom_range(SeededRandom_next(props.this.rng).rng, 1000, 5000)
    IN  [this |-> [time |-> 0, animationSpeed |-> animationSpeed.value,
                   rng |-> animationSpeed.rng] @@ props.this,
         powerLevel |-> props.powerLevel]

\* new Eyeball(seed, canvasWidth, canvasHeight): the object after the
\* constructor (with the local powerLevel of its generateMetadata call)
Eyeball(seed, canvasWidth, canvasHeight) ==
    LET props == Eyeball_generateProperties(
                   [w |-> canvasWidth, h |-> canvasHeight,
                    centerX |-> canvasWidth \div 2,
                    centerY |-> canvasHeight \div 2,
                    seed |-> seed, rng |-> SeededRandom(seed)])
        animationSpeed == SeededRandom_range(props.this.rng, 1000, 5000)
    IN  [this |-> [time |-> 0, animationSpeed |-> animationSpeed.value,
                   rng |-> animationSpeed.rng] @@ props.this,
         powerLevel |-> props.powerLevel]

(***************************************************************************)
(* Rendering.  A CanvasHelper call is logged as the tuple <<op, args...>>  *)
(* with integer arguments: lengths, colour channels and alphas in          *)
(* hundredths, angles in milliradians.  A point the code computes as       *)
(* (cos(angle) * radius, sin(angle) * radius) is logged in polar form,     *)
(* angle then radius.  this.time is kept in units of 10^-7.                *)
(***************************************************************************)
PiMilli == 3142

\* Math.sin on milliradians, in thousandths (Bhaskara's rational
\* approximation on each half period; absolute error below 0.002)
Sin(x) ==
    LET r == x % (2 * PiMilli)
        y == IF r < PiMilli THEN r ELSE r - PiMilli
        q == y * (PiMilli - y)
        v == (16 * q) \div ((5 * PiMilli * PiMilli - 4 * q) \div 1000)
    IN  IF r < PiMilli THEN v ELSE -v

Cos(x) == Sin(x + PiMilli \div 2)

\* CanvasHelper.map and CanvasHelper.lerp on integers
map(value, start1, stop1, start2, stop2) ==
    start2 + ((stop2 - start2) * (value - start1)) \div (stop1 - start1)

lerp(start, stop, num, den) == start + ((stop - start) * num) \div den

RECURSIVE ConcatRange(_, _, _)
\* ss[lo] \o ... \o ss[hi], by halving the range
ConcatRange(ss, lo, hi) ==
    IF lo > hi THEN <<>>
    ELSE IF lo = hi THEN ss[lo]
    ELSE ConcatRange(ss, lo, (lo + hi) \div 2)
           \o ConcatRange(ss, (lo + hi) \div 2 + 1, hi)

\* the concatenation of a sequence of sequences (the log of a loop)
Concat(ss) == ConcatRange(ss, 1, Len(ss))

\* the milliradians of this.time * this.animationEnergy * k, k in tenths
TimeEnergy(this, k10) ==
    ((((this.time \div 10000) * this.animationEnergy) \div 1000) * k10) \div 100

\* the milliradians of this.time * k, k in tenths
TimeMilli(this, k10) == ((this.time \div 1000) * k10) \div 100

\* the animated offset of iris, pupil, highlights and laser:
\* translate(sin(time) * 5 * energy, cos(time * 0.7) * 3 * energy)
OffsetTranslate(this) ==
    <<"translate",
      (Sin(TimeMilli(this, 10)) * 5 * this.animationEnergy) \div 100000,
      (Cos(TimeMilli(this, 7)) * 3 * this.animationEnergy) \div 100000>>

CenterTranslate(this) == <<"translate", this.centerX * 100, this.centerY * 100>>

\* the materialization phase (sin(time * energy * 0.4) + 1) / 2 of drawIris,
\* drawPupil and drawLaser, in thousandths
materializationPhase(this) == (Sin(TimeEnergy(this, 4)) + 1000) \div 2

materializationThreshold == 200

\* laserGlow at full strength whenever the eyeball has a laser, whatever the
\* phase; C22_OverlaySynchronized tells it from lines 486-496 and 551-561
laserGlow_unsynchronized(this) == IF this.hasLaser THEN 1000 ELSE 0

\* laserGlow of drawIris and drawPupil, lines 486-496 and 551-561
laserGlow(this) ==
    IF this.hasLaser /\ materializationPhase(this) > materializationThreshold
       THEN Sin((map(materializationPhase(this), materializationThreshold,
                     1000, 0, 1000) * PiMilli) \div 1000)
       ELSE 0

\* drawStar and drawPolygon: for (a = 0; a < TWO_PI; a += TWO_PI / npoints).
\* In double arithmetic six additions of TWO_PI / 6 stay below TWO_PI, so
\* the loop body runs npoints + 1 times.
Eyeball_drawStar(radius1, radius2, npoints) ==
    <<<<"beginShape">>>>
    \o Concat([k \in 1..(npoints + 1) |->
         << <<"vertex", ((k - 1) * 2 * PiMilli) \div npoints, radius2>>,
            <<"vertex", ((2 * k - 1) * PiMilli) \div npoints, radius1>> >>])
    \o <<<<"endShape", 1>>>>

Eyeball_drawPolygon(radius, npoints) ==
    <<<<"beginShape">>>>
    \o [k \in 1..(npoints + 1) |->
         <<"vertex", ((k - 1) * 2 * PiMilli) \div npoints, radius>>]
    \o <<<<"endShape", 1>>>>

\* drawShape(p, shape, size): the switch of lines 617-642
Eyeball_drawShape(shape, size) ==
    CASE shape = "circle"  -> <<<<"ellipse", 0, 0, size, size>>>>
      [] shape = "oval"    ->
           <<<<"ellipse", 0, 0, (size * 13) \div 10, (size * 8) \div 10>>>>
      [] shape = "diamond" ->
           << <<"push">>, <<"rotate", PiMilli \div 4>>, <<"rectMode">>,
              <<"rect", 0, 0, (size * 7) \div 10, (size * 7) \div 10>>,
              <<"pop">> >>
      [] shape = "star"    -> Eyeball_drawStar(size \div 2, size \div 4, 6)
      [] shape = "hexagon" -> Eyeball_drawPolygon(size \div 2, 6)
      [] shape = "almond"  ->
           <<<<"ellipse", 0, 0, (size * 15) \div 10, (size * 6) \div 10>>>>
      [] OTHER             -> <<<<"ellipse", 0, 0, size, size>>>>

\* p.fill(c[0], c[1], c[2], a)
Fill(c, a) == <<"fill", c[1], c[2], c[3], a>>

\* p.stroke(c[0], c[1], c[2], a)
Stroke(c, a) == <<"stroke", c[1], c[2], c[3], a>>

White == <<25500, 25500, 25500>>

\* the colour lerp(irisColor1[k], irisColor2[k], num / den), k = 0, 1, 2
IrisLerp(this, num, den) ==
    <<lerp(this.irisColor1[1], this.irisColor2[1], num, den),
      lerp(this.irisColor1[2], this.irisColor2[2], num, den),
      lerp(this.irisColor1[3], this.irisColor2[3], num, den)>>

\* drawSocket(p)
Eyeball_drawSocket(this) ==
    << <<"push">>, CenterTranslate(this) >>
    \o (IF this.hasGlow
           THEN Concat([k \in 1..5 |->
                  LET i == 6 - k
                  IN  <<Fill(this.socketColor, (50 - i * 8) * 100)>>
                      \o Eyeball_drawShape(this.socketShape,
                                           this.socketSize + i * 1000)])
           ELSE <<>>)
    \o <<Fill(this.socketColor, 25500)>>
    \o Eyeball_drawShape(this.socketShape, this.socketSize)
    \o <<<<"pop">>>>

\* drawVeins(p) given the values of its 24 next() calls: eight veins, three
\* calls per vein in the order angle, length, end point
VeinsOf(this, words) ==
    [ops |-> << Stroke(<<20000, 10000, 10000>>, 10000),
                <<"strokeWeight", 100>> >>
             \o Concat([k \in 1..8 |->
                   << <<"push">>,
                      <<"rotate", Scaled(words[3 * k - 2], 0, 2 * PiMilli)>>,
                      <<"line", 0, 0, Scaled(words[3 * k - 1], 2000, 4000),
                        Scaled(words[3 * k], -500, 500)>>,
                      <<"pop">> >>])
             \o <<<<"noStroke">>>>,
     rng |-> [this.rng EXCEPT !.seed = words[24]]]

\* drawVeins(p): eight veins drawn from this.rng
Eyeball_drawVeins(this) == VeinsOf(this, StreamWords(this.rng, 24))

\* drawSclera(p) given the result of its drawVeins call
ScleraOf(this, veins) ==
    LET scleraSize == (this.socketSize * 85) \div 100
        steps == (scleraSize + 199) \div 200
    IN  [ops |-> << <<"push">>, CenterTranslate(this) >>
                 \o veins.ops
                 \o <<Fill(this.scleraColor, 25500)>>
                 \o (IF this.scleraTexture = "metallic"
                        THEN Concat([k \in 1..steps |->
                               LET i == (k - 1) * 200
                               IN  <<Fill(this.scleraColor,
                                          map(i, 0, scleraSize, 25500, 10000))>>
                                   \o Eyeball_drawShape(this.socketShape,
                                                        scleraSize - i)])
                        ELSE Eyeball_drawShape(this.socketShape, scleraSize))
                 \o <<<<"pop">>>>,
         rng |-> veins.rng]

\* drawSclera(p)
Eyeball_drawSclera(this) ==
    ScleraOf(this, IF this.scleraTexture = "veined"
                      THEN Eyeball_drawVeins(this)
                      ELSE [ops |-> <<>>, rng |-> this.rng])

\* drawRadialPattern(p)
Eyeball_drawRadialPattern(this) ==
    Concat([k \in 1..12 |->
      << Fill(IrisLerp(this, k - 1, 12), 25500), <<"push">>,
         <<"rotate", ((k - 1) * 2 * PiMilli) \div 12>>,
         <<"triangle", 0, 0, this.irisSize \div 2, -500,
           this.irisSize \div 2, 500>>,
         <<"pop">> >>])

\* drawSpiralPattern(p): five strokes; for (angle = 0; angle < TWO_PI * 3;
\* angle += 0.1) runs 189 times
Eyeball_drawSpiralPattern(this) ==
    << <<"noFill">>, <<"strokeWeight", 300>> >>
    \o Concat([k \in 1..5 |->
         << Stroke(IrisLerp(this, k - 1, 5), 25500), <<"beginShape">>,
            <<"noFill">> >>
         \o [j \in 1..189 |->
              <<"vertex",
                (j - 1) * 100 + TimeEnergy(this, 10) + (k - 1) * 1000,
                map((j - 1) * 100, 0, 6 * PiMilli, 0, this.irisSize \div 2)>>]
         \o <<<<"endShape", 0>>>>])
    \o <<<<"noStroke">>>>

\* drawGeometricPattern(p)
Eyeball_drawGeometricPattern(this) ==
    Concat([r \in 1..4 |->
      LET ring      == r - 1
          radius    == map(ring, 0, 3, this.irisSize \div 8,
                           this.irisSize \div 2)
          numShapes == 6 + ring * 2
      IN  Concat([k \in 1..numShapes |->
            LET angle == ((k - 1) * 2 * PiMilli) \div numShapes
                           + TimeEnergy(this, 10 * (ring + 1))
            IN  << Fill(IrisLerp(this, ring, 4), 25500), <<"push">>,
                   <<"translate", angle, radius>>, <<"rotate", angle>>,
                   <<"rectMode">>, <<"rect", 0, 0, 500, 500>>,
                   <<"pop">> >>])])

RECURSIVE Eyeball_drawFractalLayer_noFloor(_, _, _, _, _)
\* drawFractalLayer without the floor on size; C25_FractalBounded tells it
\* from line 747
Eyeball_drawFractalLayer_noFloor(this, size, x, y, depth) ==
    IF depth <= 0 THEN <<>>
    ELSE LET newSize == (size * 6) \div 10
             offset  == (size * 3) \div 10
         IN  << Fill(IrisLerp(this, 4 - depth, 4), 15000),
                <<"ellipse", x, y, size, size>> >>
             \o Eyeball_drawFractalLayer_noFloor(this, newSize, x - offset, y,
                                                 depth - 1)
             \o Eyeball_drawFractalLayer_noFloor(this, newSize, x + offset, y,
                                                 depth - 1)
             \o Eyeball_drawFractalLayer_noFloor(this, newSize, x, y - offset,
                                                 depth - 1)
             \o Eyeball_drawFractalLayer_noFloor(this, newSize, x, y + offset,
                                                 depth - 1)

RECURSIVE Eyeball_drawFractalLayer(_, _, _, _, _)
\* drawFractalLayer(p, size, x, y, depth)
Eyeball_drawFractalLayer(this, size, x, y, depth) ==
    IF depth <= 0 \/ size < 500 THEN <<>>
    ELSE LET newSize == (size * 6) \div 10
             offset  == (size * 3) \div 10
         IN  << Fill(IrisLerp(this, 4 - depth, 4), 15000),
                <<"ellipse", x, y, size, size>> >>
             \o Eyeball_drawFractalLayer(this, newSize, x - offset, y, depth - 1)
             \o Eyeball_drawFractalLayer(this, newSize, x + offset, y, depth - 1)
             \o Eyeball_drawFractalLayer(this, newSize, x, y - offset, depth - 1)
             \o Eyeball_drawFractalLayer(this, newSize, x, y + offset, depth - 1)

\* drawFractalPattern(p)
Eyeball_drawFractalPattern(this) ==
    Eyeball_drawFractalLayer(this, this.irisSize \div 2, 0, 0, 4)

\* drawCrystallinePattern(p)
Eyeball_drawCrystallinePattern(this) ==
    Concat([k \in 1..8 |->
      << Fill(this.irisColor1, 18000), <<"push">>,
         <<"translate", ((k - 1) * 2 * PiMilli) \div 8, this.irisSize \div 3>>,
         <<"rotate", ((k - 1) * 2 * PiMilli) \div 8>>,
         <<"triangle", 0, -1000, -800, 1000, 800, 1000>>,
         <<"pop">> >>])
    \o << Fill(this.irisColor2, 22000),
          <<"ellipse", 0, 0, this.irisSize \div 3, this.irisSize \div 3>> >>

\* drawVoidPattern with the alpha running against the size;
\* C24_VoidDiscsFade tells it from line 789
Eyeball_drawVoidPattern_alphaReversed(this) ==
    Concat([k \in 1..20 |->
      LET i     == 21 - k
          alpha == map(i, 0, 20, 25500, 0)
          size  == map(i, 0, 20, 0, this.irisSize)
      IN  << IF i % 2 = 0 THEN Fill(this.irisColor1, alpha)
                          ELSE Fill(<<0, 0, 0>>, alpha),
             <<"ellipse", 0, 0, size, size>> >>])

\* drawVoidPattern(p): for (i = 20; i > 0; i--)
Eyeball_drawVoidPattern(this) ==
    Concat([k \in 1..20 |->
      LET i     == 21 - k
          alpha == map(i, 0, 20, 0, 25500)
          size  == map(i, 0, 20, 0, this.irisSize)
      IN  << IF i % 2 = 0 THEN Fill(this.irisColor1, alpha)
                          ELSE Fill(<<0, 0, 0>>, alpha),
             <<"ellipse", 0, 0, size, size>> >>])

\* drawIris(p)
Eyeball_drawIris(this) ==
    LET glow == laserGlow(this)
    IN  << <<"push">>, CenterTranslate(this), OffsetTranslate(this) >>
        \o (CASE this.irisPattern = "radial" -> Eyeball_drawRadialPattern(this)
              [] this.irisPattern = "spiral" -> Eyeball_drawSpiralPattern(this)
              [] this.irisPattern = "geometric" ->
                   Eyeball_drawGeometricPattern(this)
              [] this.irisPattern = "fractal" ->
                   Eyeball_drawFractalPattern(this)
              [] this.irisPattern = "crystalline" ->
                   Eyeball_drawCrystallinePattern(this)
              [] this.irisPattern = "void" -> Eyeball_drawVoidPattern(this)
              [] OTHER ->
                   <<Fill(this.irisColor1, 25500)>>
                   \o Eyeball_drawShape(this.irisShape, this.irisSize))
        \o (IF glow > 100
               THEN Concat([k \in 1..6 |->
                      LET i == 7 - k
                      IN  <<Fill(this.laserColor, (glow * 30 * i) \div 60)>>
                          \o Eyeball_drawShape(this.irisShape,
                                               this.irisSize + i * 600)])
                    \o <<Fill(White, glow * 4)>>
                    \o Eyeball_drawShape(this.irisShape, this.irisSize + 200)
                    \o <<Fill(this.laserColor, (glow * 25) \div 10)>>
                    \o Eyeball_drawShape(this.irisShape, this.irisSize)
               ELSE <<>>)
        \o <<<<"pop">>>>

\* drawPupil(p)
Eyeball_drawPupil(this) ==
    LET glow == laserGlow(this)
    IN  << <<"push">>, CenterTranslate(this), OffsetTranslate(this) >>
        \o (CASE this.pupilShape = "multiple" ->
                   Concat([k \in 1..3 |->
                     << <<"push">>,
                        <<"translate", ((k - 1) * 2 * PiMilli) \div 3,
                          (this.pupilSize * 3) \div 10>>,
                        Fill(this.pupilColor, 25500),
                        <<"ellipse", 0, 0, this.pupilSize \div 2,
                          this.pupilSize \div 2>>,
                        <<"pop">> >>])
              [] this.pupilShape = "slit" ->
                   << Fill(this.pupilColor, 25500),
                      <<"ellipse", 0, 0, (this.pupilSize * 3) \div 10,
                        this.pupilSize>> >>
              [] this.pupilShape = "cross" ->
                   << Fill(this.pupilColor, 25500), <<"rectMode">>,
                      <<"rect", 0, 0, (this.pupilSize * 3) \div 10,
                        this.pupilSize>>,
                      <<"rect", 0, 0, this.pupilSize,
                        (this.pupilSize * 3) \div 10>> >>
              [] this.pupilShape = "void" ->
                   Concat([k \in 1..10 |->
                     LET i    == 11 - k
                         size == map(i, 0, 10, this.pupilSize, 0)
                     IN  << Fill(<<0, 0, 0>>, map(i, 0, 10, 25500, 0)),
                            <<"ellipse", 0, 0, size, size>> >>])
              [] OTHER ->
                   <<Fill(this.pupilColor, 25500)>>
                   \o Eyeball_drawShape(this.pupilShape, this.pupilSize))
        \o (IF glow > 100
               THEN Concat([k \in 1..3 |->
                      LET i == 4 - k
                      IN  <<Fill(this.laserColor, (glow * 20 * i) \div 30)>>
                          \o Eyeball_drawShape(this.pupilShape,
                                               this.pupilSize + i * 300)])
                    \o <<Fill(White, glow * 3)>>
                    \o Eyeball_drawShape(this.pupilShape, this.pupilSize + 100)
               ELSE <<>>)
        \o <<<<"pop">>>>

\* drawHighlights(p)
Eyeball_drawHighlights(this) ==
    << <<"push">>, CenterTranslate(this), OffsetTranslate(this),
       Fill(White, 18000),
       <<"ellipse", -(this.irisSize \div 4), -(this.irisSize \div 4),
         this.irisSize \div 4, this.irisSize \div 4>>,
       Fill(White, 10000),
       <<"ellipse", this.irisSize \div 3, this.irisSize \div 3,
         this.irisSize \div 6, this.irisSize \div 6>>,
       <<"pop">> >>

\* drawGlow(p)
Eyeball_drawGlow(this) ==
    << <<"push">>, CenterTranslate(this) >>
    \o Concat([k \in 1..10 |->
         LET i == 11 - k
         IN  << Fill(this.effectColor, map(i, 0, 10, 0, 25500)),
                <<"ellipse", 0, 0, this.socketSize + i * 2000,
                  this.socketSize + i * 2000>> >>])
    \o Concat([k \in 1..5 |->
         LET i == 6 - k
         IN  << Fill(White, map(i, 0, 5, 0, 25500)),
                <<"ellipse", 0, 0, this.socketSize + i * 800,
                  this.socketSize + i * 800>> >>])
    \o <<<<"pop">>>>

\* drawAura(p): twenty rays, each stroked four times
Eyeball_drawAura(this) ==
    << <<"push">>, CenterTranslate(this) >>
    \o Concat([k \in 1..20 |->
         LET i      == k - 1
             angle  == (i * 2 * PiMilli) \div 20 + TimeEnergy(this, 20)
             length == 7000 + (Sin(TimeEnergy(this, 30) + i * 1000) * 40
                                 * this.animationEnergy) \div 100000
             ray    == <<"line", angle, this.socketSize \div 2, angle,
                         this.socketSize \div 2 + length>>
         IN  << Stroke(this.auraColor, 25500), <<"strokeWeight", 800>>, ray,
                Stroke(White, 25500), <<"strokeWeight", 600>>, ray,
                Stroke(this.auraColor, 25500), <<"strokeWeight", 400>>, ray,
                Stroke(White, 25500), <<"strokeWeight", 200>>, ray >>])
    \o << <<"noStroke">>, <<"pop">> >>

\* drawParticles(p): twenty-five particles of five discs each
Eyeball_drawParticles(this) ==
    << <<"push">>, CenterTranslate(this) >>
    \o Concat([k \in 1..25 |->
         LET i      == k - 1
             angle  == (i * 2 * PiMilli) \div 25 + TimeEnergy(this, 15)
             radius == this.socketSize \div 2
                         + (Sin(TimeEnergy(this, 20) + i * 1000) * 40
                              * this.animationEnergy) \div 100000
             size   == 500 + (Sin(TimeEnergy(this, 40) + i * 1000) * 4
                                * this.animationEnergy) \div 100000
         IN  << Fill(this.effectColor, 25500),
                <<"ellipse", angle, radius, (size * 15) \div 10,
                  (size * 15) \div 10>>,
                Fill(White, 25500),
                <<"ellipse", angle, radius, size, size>>,
                Fill(this.effectColor, 25500),
                <<"ellipse", angle, radius, (size * 6) \div 10,
                  (size * 6) \div 10>>,
                Fill(this.effectColor, 25500),
                <<"ellipse", angle, radius - 1500, (size * 8) \div 10,
                  (size * 8) \div 10>>,
                Fill(this.effectColor, 20000),
                <<"ellipse", angle, radius - 2500, size \div 2,
                  size \div 2>> >>])
    \o <<<<"pop">>>>

\* the six stroke layers of a laser beam, lines 967-974: weight, alpha,
\* the factor of each (1: none, 2: pulseIntensity, 3: chargeUpEffect) and
\* whether the colour is laserColor
LaserLayers ==
    << [weight |-> 24, wf |-> 2, alpha |-> 40,  af |-> 3, laser |-> TRUE],
       [weight |-> 18, wf |-> 2, alpha |-> 80,  af |-> 2, laser |-> TRUE],
       [weight |-> 14, wf |-> 2, alpha |-> 140, af |-> 2, laser |-> FALSE],
       [weight |-> 10, wf |-> 1, alpha |-> 200, af |-> 1, laser |-> TRUE],
       [weight |-> 6,  wf |-> 1, alpha |-> 255, af |-> 1, laser |-> FALSE],
       [weight |-> 3,  wf |-> 1, alpha |-> 255, af |-> 1, laser |-> TRUE] >>

\* the early return without its p.pop(); C7_StackBalanced tells it from
\* lines 894-897
LaserDematerialized_noPop(this) == << >>

\* the early return after a faint beam has been stroked; C21_LaserGate tells
\* it from lines 894-897
LaserDematerialized_faintBeam(this) ==
    << <<"stroke", 25500, 25500, 25500, 100>>, <<"line", 0, 0, 0, 1000>>,
       <<"pop">> >>

\* the early return of drawLaser, lines 894-897: p.pop(); return
LaserDematerialized(this) == <<<<"pop">>>>

\* drawLaser(p).  fadeIn, pulseIntensity, chargeUpEffect and beamIntensity
\* are in thousandths.  A beam point is logged as the polar position
\* (laserAngle + fanAngle, distance) and the phase of its perpendicular wave.
Eyeball_drawLaser(this) ==
    LET phase   == materializationPhase(this)
        fadeIn  == Sin((map(phase, materializationThreshold, 1000, 0, 1000)
                          * PiMilli) \div 1000)
        laserAngle  == PiMilli \div 4
                         + (((Sin(TimeEnergy(this, 6)) + 1000) \div 2)
                              * (PiMilli \div 2)) \div 1000
        pulseIntensity == 500 + Sin(TimeEnergy(this, 120)) \div 2
        chargeUpEffect == 300 + (7 * Sin(TimeEnergy(this, 180))) \div 10
        laserLength == 40 * fadeIn
        Factor(f) == CASE f = 2 -> pulseIntensity
                       [] f = 3 -> chargeUpEffect
                       [] OTHER -> 1000
        Beam(beam) ==
          LET beamIntensity == ((IF beam = 0 THEN 1000 ELSE 550) * fadeIn)
                                  \div 1000
              fanAngle == (beam * 30 - 15) \div 2
              points == [k \in 1..11 |->
                <<"vertex", laserAngle + fanAngle,
                  ((k - 1) * laserLength) \div 10,
                  ((k - 1) * (8 + beam) * 100) + TimeMilli(this, 20)
                    + beam * 250>>]
          IN  Concat([l \in 1..Len(LaserLayers) |->
                LET layer == LaserLayers[l]
                    weight == (((layer.weight * beamIntensity) \div 10)
                                 * Factor(layer.wf)) \div 1000
                    alpha  == (((((layer.alpha * beamIntensity) \div 10)
                                  * Factor(layer.af)) \div 1000) * fadeIn)
                                \div 1000
                IN  << Stroke(IF layer.laser THEN this.laserColor ELSE White,
                              alpha),
                       <<"strokeWeight", weight>>, <<"beginShape">>,
                       <<"noFill">> >>
                    \o points \o <<<<"endShape", 0>>>>])
        sourceParticles ==
          Concat([k \in 1..8 |->
            LET i      == k - 1
                angle  == (i * 2 * PiMilli) \div 8 + TimeMilli(this, 30)
                radius == ((1500 + Sin(TimeMilli(this, 60) + i * 1000))
                             * fadeIn) \div 1000
            IN  << Fill(White, (180 * fadeIn) \div 10),
                   <<"ellipse", angle, radius, 400, 400>>,
                   Fill(this.laserColor, (255 * fadeIn) \div 10),
                   <<"ellipse", angle, radius, 200, 200>> >>])
        beamParticles ==
          Concat([k \in 1..8 |->
            LET i        == k - 1
                progress == i * 125 + (TimeMilli(this, 7) % 1000)
                distance == (progress * laserLength) \div 1000
                angle    == laserAngle + ((i % 2) * 30 - 15) \div 2
                size     == 400 + (6 * ((chargeUpEffect * fadeIn) \div 1000))
                                    \div 10
            IN  << Fill(White, (22 * ((chargeUpEffect * fadeIn) \div 1000))),
                   <<"ellipse", angle, distance, (size * 15) \div 10,
                     (size * 15) \div 10>>,
                   Fill(this.laserColor, (255 * fadeIn) \div 10),
                   <<"ellipse", angle, distance, size, size>>,
                   Fill(White, (120 * fadeIn) \div 10),
                   <<"ellipse", angle, distance, size \div 2, size \div 2>> >>])
    IN  << <<"push">>, CenterTranslate(this), OffsetTranslate(this) >>
        \o (IF phase < materializationThreshold
               THEN LaserDematerialized(this)
               ELSE Beam(0) \o Beam(1)
                    \o (IF fadeIn > 500 THEN sourceParticles ELSE <<>>)
                    \o (IF chargeUpEffect > 500 /\ fadeIn > 300
                           THEN beamParticles ELSE <<>>)
                    \o << <<"noStroke">>, <<"pop">> >>)

\* one stroke of a bolt: stroke, strokeWeight, beginShape, noFill, the
\* start vertex, six jagged vertices, endShape.  words holds the values of
\* the next() calls of drawLightning; the stroke's calls follow the first
\* base of them, three per step in the order angle, x jitter, y jitter.  A
\* jagged vertex is logged as its polar position and its two jitters.
LightningStroke(this, words, base, startAngle, colour, weight) ==
    << Stroke(colour, 25500), <<"strokeWeight", weight>>, <<"beginShape">>,
       <<"noFill">>, <<"vertex", startAngle, this.irisSize \div 2>> >>
    \o [k \in 1..6 |->
         <<"vertex", startAngle + Scaled(words[base + 3 * k - 2], -400, 400),
           lerp(this.irisSize \div 2, this.socketSize \div 2 + 2000, k - 1, 6),
           Scaled(words[base + 3 * k - 1], -800, 800),
           Scaled(words[base + 3 * k], -800, 800)>>]
    \o <<<<"endShape", 0>>>>

\* iteration i of for (i = 0; i < numBolts; i++): the start angle is drawn,
\* then the bolt is stroked three times; an iteration makes 1 + 3 * 18
\* calls, after the one of numBolts
LightningBolt(this, words, numBolts, i) ==
    LET base == 1 + 55 * i
        startAngle == (i * 2 * PiMilli) \div numBolts
                        + Scaled(words[base + 1], -300, 300)
    IN  LightningStroke(this, words, base + 1, startAngle, White, 800)
        \o LightningStroke(this, words, base + 19, startAngle,
                           <<20000, 20000, 25500>>, 500)
        \o LightningStroke(this, words, base + 37, startAngle, White, 200)

\* drawLightning(p) given the values of its next() calls:
\* numBolts = 3 + Math.floor(this.rng.range(0, 2))
LightningOf(this, words) ==
    LET numBolts == 3 + Scaled(words[1], 0, 2)
    IN  [ops |-> << <<"push">>, CenterTranslate(this) >>
                 \o Concat([k \in 1..numBolts |->
                       LightningBolt(this, words, numBolts, k - 1)])
                 \o << <<"noStroke">>, <<"pop">> >>,
         rng |-> [this.rng EXCEPT !.seed = words[1 + 55 * numBolts]]]

\* drawLightning(p): at most 1 + 4 * 55 calls of this.rng
Eyeball_drawLightning(this) == LightningOf(this, StreamWords(this.rng, 221))

\* the calls of one pass, each tagged with the pass: <<pass, op, args...>>
Pass(name, ops) == [k \in 1..Len(ops) |-> <<name>> \o ops[k]]

\* the passes with the laser drawn under the iris; C6_PassOrder tells it
\* from the order of lines 393-431
PassOrder_laserUnderIris ==
    <<"background", "glow", "aura", "socket", "sclera", "laser", "iris",
      "pupil", "highlights", "particles", "lightning">>

\* the passes of draw in the order of lines 393-431
PassOrder ==
    <<"background", "glow", "aura", "socket", "sclera", "iris", "pupil",
      "highlights", "laser", "particles", "lightning">>

\* the condition of draw on a pass
PassRuns(this, name) ==
    CASE name = "glow"      -> this.hasGlow
      [] name = "aura"      -> this.hasAura
      [] name = "laser"     -> this.hasLaser
      [] name = "particles" -> this.hasParticles
      [] name = "lightning" -> this.hasLightning
      [] OTHER              -> TRUE

\* the result of a pass that makes no call on this.rng
Drawn(this, ops) == [ops |-> ops, rng |-> this.rng]

\* a pass: its calls on the CanvasHelper and this.rng after it.  drawVeins
\* (inside drawSclera) and drawLightning draw from this.rng.
PassDraw(this, name) ==
    CASE name = "background" ->
           Drawn(this, <<<<"background", 1000, 1000, 1500>>>>)
      [] name = "glow"       -> Drawn(this, Eyeball_drawGlow(this))
      [] name = "aura"       -> Drawn(this, Eyeball_drawAura(this))
      [] name = "socket"     -> Drawn(this, Eyeball_drawSocket(this))
      [] name = "sclera"     -> Eyeball_drawSclera(this)
      [] name = "iris"       -> Drawn(this, Eyeball_drawIris(this))
      [] name = "pupil"      -> Drawn(this, Eyeball_drawPupil(this))
      [] name = "highlights" -> Drawn(this, Eyeball_drawHighlights(this))
      [] name = "laser"      -> Drawn(this, Eyeball_drawLaser(this))
      [] name = "particles"  -> Drawn(this, Eyeball_drawParticles(this))
      [] name = "lightning"  -> Eyeball_drawLightning(this)

\* a pass that animates the pupil by writing this.pupilSize;
\* C5_AttributesFrozen tells it from the passes of draw
AfterPass_pupilWritten(frame, name, drawn) ==
    [ops  |-> frame.ops \o Pass(name, drawn.ops),
     this |-> [frame.this EXCEPT !.rng = drawn.rng,
                                 !.pupilSize = IF name = "pupil" THEN @ + 100
                                                                 ELSE @]]

\* the frame [ops, this] after the pass that made the calls drawn.ops and
\* left the stream drawn.rng
AfterPass(frame, name, drawn) ==
    [ops  |-> frame.ops \o Pass(name, drawn.ops),
     this |-> [frame.this EXCEPT !.rng = drawn.rng]]

RECURSIVE DrawPasses(_, _, _)
\* the passes lo..hi of PassOrder on a frame, in order (the first half,
\* then the second on its result)
DrawPasses(frame, lo, hi) ==
    IF lo = hi
       THEN IF PassRuns(frame.this, PassOrder[lo])
               THEN AfterPass(frame, PassOrder[lo],
                              PassDraw(frame.this, PassOrder[lo]))
               ELSE frame
       ELSE LET first == DrawPasses(frame, lo, (lo + hi) \div 2)
            IN  IF Evaluated(first)
                   THEN DrawPasses(first, (lo + hi) \div 2 + 1, hi)
                   ELSE first

\* draw with the time update moved after the passes; C16_TimeAccumulates
\* tells it from draw
Eyeball_draw_timeLast(this) ==
    LET drawn == DrawPasses([ops |-> <<>>, this |-> this], 1, Len(PassOrder))
    IN  [drawn EXCEPT !.this.time =
           @ + (this.animationSpeed * this.animationEnergy) \div 100]

\* draw(ctx): the time update of line 390, then the passes.  The result is
\* the object after the call and the calls made on the CanvasHelper.
Eyeball_draw(this) ==
    DrawPasses([ops  |-> <<>>,
                this |-> [this EXCEPT !.time =
                            @ + (this.animationSpeed * this.animationEnergy)
                                  \div 100]],
               1, Len(PassOrder))

\* CanvasRenderingContext2D.save / restore.  StackProfile(ops, lo, hi) is,
\* for the calls ops[lo..hi], the net change of the depth of the saved-state
\* stack (saves minus restores) and the lowest value the running change
\* takes, computed by halving the range.
RECURSIVE StackProfile(_, _, _)
StackProfile(ops, lo, hi) ==
    IF lo > hi THEN [net |-> 0, low |-> 0]
    ELSE IF lo = hi
      THEN CASE ops[lo][2] = "push" -> [net |-> 1, low |-> 0]
             [] ops[lo][2] = "pop"  -> [net |-> -1, low |-> -1]
             [] OTHER               -> [net |-> 0, low |-> 0]
      ELSE LET mid   == (lo + hi) \div 2
               left  == StackProfile(ops, lo, mid)
               right == StackProfile(ops, mid + 1, hi)
           IN  [net |-> left.net + right.net,
                low |-> IF left.net + right.low < left.low
                           THEN left.net + right.low ELSE left.low]

\* the depth of the saved-state stack after the calls ops, from depth
\* (restore on an empty stack does nothing)
SavedAfter(depth, ops) ==
    LET profile == StackProfile(ops, 1, Len(ops))
    IN  IF depth + profile.low >= 0 THEN depth + profile.net
                                    ELSE profile.net - profile.low

(***************************************************************************)
(* The gallery: generateSingleEye, generateEyeballWithSeed, the animate    *)
(* callback and clearCollection.                                           *)
(***************************************************************************)
NoReplay == [eyeball |-> 0, ops |-> <<>>]

\* the seed input before any generateFromSeed call
NoSubmission == [submitted |-> <<>>, value |-> <<>>, alert |-> FALSE]

Init ==
    /\ instances = <<>>
    /\ locals = <<>>
    /\ canvas = <<>>
    /\ eyeballs = <<>>
    /\ animationLoops = <<>>
    /\ pending = {}
    /\ nextHandle = 1
    /\ replay = NoReplay
    /\ streams = <<>>
    /\ calls = <<>>
    /\ rets = <<>>
    /\ seedForm = NoSubmission

\* generateEyeballWithSeed(seed): a new Eyeball on a canvas of its own, the
\* first animation frame requested and its id pushed to animationLoops, the
\* eyeball pushed to eyeballs
generateEyeballWithSeed(seed) ==
    LET made == Eyeball(seed, 300, 300)
        id   == Len(instances) + 1
    IN  /\ instances' = Append(instances, made.this)
        /\ locals' = Append(locals, [powerLevel  |-> made.powerLevel,
                                     constructed |-> made.this])
        /\ canvas' = Append(canvas, [ops |-> <<>>, saved |-> 0])
        /\ pending' = pending \cup {[id |-> nextHandle, eyeball |-> id]}
        /\ animationLoops' = Append(animationLoops, nextHandle)
        /\ nextHandle' = nextHandle + 1
        /\ eyeballs' = Append(eyeballs, id)

\* generateSingleEye(): a seed from Math.random
generateSingleEye(seeds, maxEyeballs) ==
    /\ Len(instances) < maxEyeballs
    /\ \E seed \in seeds : generateEyeballWithSeed(seed)
    /\ UNCHANGED <<replay, streams, calls, rets, seedForm>>

\* the time one frame adds, line 390
FrameStep(this) == (this.animationSpeed * this.animationEnergy) \div 100

\* the frames an eyeball is followed for
FrameBound(this, maxFrames) ==
    IF this.seed \in LongSeeds THEN MaxAnimFrames ELSE maxFrames

\* the callback with the elapsed time kept in one variable of the page, so
\* that a frame of one eyeball sets the time of all; C17_NoSharedState tells
\* it from the callback
animated_sharedTime(cb, frame) ==
    /\ instances' = [j \in 1..Len(instances) |->
                       IF j = cb.eyeball
                          THEN frame.this
                          ELSE [instances[j] EXCEPT !.time = frame.this.time]]
    /\ canvas' = [canvas EXCEPT ![cb.eyeball] =
                    [ops   |-> frame.ops,
                     saved |-> SavedAfter(@.saved, frame.ops)]]
    /\ pending' = (pending \ {cb})
                    \cup {[id |-> nextHandle, eyeball |-> cb.eyeball]}
    /\ nextHandle' = nextHandle + 1

\* the callback requesting the next frame twice; C27_OnePendingFrame tells
\* it from line 1281
animated_twoRequests(cb, frame) ==
    /\ instances' = [instances EXCEPT ![cb.eyeball] = frame.this]
    /\ canvas' = [canvas EXCEPT ![cb.eyeball] =
                    [ops   |-> frame.ops,
                     saved |-> SavedAfter(@.saved, frame.ops)]]
    /\ pending' = (pending \ {cb})
                    \cup {[id |-> nextHandle, eyeball |-> cb.eyeball],
                          [id |-> nextHandle + 1, eyeball |-> cb.eyeball]}
    /\ nextHandle' = nextHandle + 2

\* the effect of a callback cb whose eyeball.draw(ctx) call made frame:
\* the object and its canvas after the call, the next frame requested
animated(cb, frame) ==
    /\ instances' = [instances EXCEPT ![cb.eyeball] = frame.this]
    /\ canvas' = [canvas EXCEPT ![cb.eyeball] =
                    [ops   |-> frame.ops,
                     saved |-> SavedAfter(@.saved, frame.ops)]]
    /\ pending' = (pending \ {cb})
                    \cup {[id |-> nextHandle, eyeball |-> cb.eyeball]}
    /\ nextHandle' = nextHandle + 1

\* animate(): a pending callback runs; eyeball.draw(ctx), then the next
\* frame is requested
animate(maxFrames) ==
    \E cb \in pending :
      /\ instances[cb.eyeball].time
           < FrameBound(instances[cb.eyeball], maxFrames)
               * FrameStep(instances[cb.eyeball])
      /\ animated(cb, Eyeball_draw(instances[cb.eyeball]))
      /\ replay' = NoReplay
      /\ UNCHANGED <<locals, eyeballs, animationLoops, streams, calls, rets,
                     seedForm>>

\* clearCollection(): every id of animationLoops is cancelled, both lists
\* are emptied
clearCollection ==
    /\ eyeballs # <<>>
    /\ pending' = {cb \in pending :
                     \A k \in 1..Len(animationLoops) : animationLoops[k] # cb.id}
    /\ animationLoops' = <<>>
    /\ eyeballs' = <<>>
    /\ UNCHANGED <<instances, locals, canvas, nextHandle, replay, streams,
                   calls, rets, seedForm>>

\* the digits of parseInt, in lower and in upper case, by value
DigitsLower ==
    <<"0", "1", "2", "3", "4", "5", "6", "7", "8", "9",
      "a", "b", "c", "d", "e", "f">>
DigitsUpper ==
    <<"0", "1", "2", "3", "4", "5", "6", "7", "8", "9",
      "A", "B", "C", "D", "E", "F">>

\* whether char is a digit of the radix
IsDigit(char, radix) ==
    \E d \in 1..radix : char = DigitsLower[d] \/ char = DigitsUpper[d]

\* the value of a digit of the radix
DigitValue(char, radix) ==
    (CHOOSE d \in 1..radix :
       char = DigitsLower[d] \/ char = DigitsUpper[d]) - 1

RECURSIVE DigitsNumber(_, _, _)
\* the number written by the first n characters of chars, all digits of the
\* radix
DigitsNumber(chars, n, radix) ==
    IF n = 0
       THEN 0
       ELSE DigitsNumber(chars, n - 1, radix) * radix
              + DigitValue(chars[n], radix)

\* the result of parseInt when no digit is found
NaN == [nan |-> TRUE, value |-> 0]

\* parseInt(string) of line 1417, the string given as its characters:
\* leading white space is skipped, a sign is read, a prefix 0x or 0X makes
\* the radix 16, and the longest run of digits that follows is the number;
\* what comes after it is ignored; with no digit the result is NaN
parseInt(chars) ==
    LET blanks == CHOOSE n \in 0..Len(chars) :
                    /\ \A k \in 1..n : chars[k] = " "
                    /\ n = Len(chars) \/ chars[n + 1] # " "
        trimmed == SubSeq(chars, blanks + 1, Len(chars))
        signed == trimmed # <<>> /\ trimmed[1] \in {"+", "-"}
        sign == IF signed /\ trimmed[1] = "-" THEN -1 ELSE 1
        unsigned == IF signed THEN Tail(trimmed) ELSE trimmed
        hex == /\ Len(unsigned) >= 2
               /\ unsigned[1] = "0"
               /\ unsigned[2] \in {"x", "X"}
        radix == IF hex THEN 16 ELSE 10
        digits == IF hex THEN SubSeq(unsigned, 3, Len(unsigned)) ELSE unsigned
        n == CHOOSE m \in 0..Len(digits) :
               /\ \A k \in 1..m : IsDigit(digits[k], radix)
               /\ m = Len(digits) \/ ~ IsDigit(digits[m + 1], radix)
    IN  IF n = 0 THEN NaN
                 ELSE [nan |-> FALSE,
                       value |-> sign * DigitsNumber(digits, n, radix)]

\* the condition without its upper bound; C19_SeedValidated tells it from
\* line 1419
SeedAccepted_noUpperBound(seed) ==
    /\ ~ seed.nan
    /\ seed.value # 0
    /\ seed.value >= 1

\* the condition of line 1419: seed && seed >= 1 && seed <= 999999 (NaN and
\* 0 are falsy)
SeedAccepted(seed) ==
    /\ ~ seed.nan
    /\ seed.value # 0
    /\ seed.value >= 1
    /\ seed.value <= 999999

\* the texts typed into the seed input: "", "abc", "0", "-5", "42", "42abc",
\* "12.7", "999999", "1000000", " 7" and "0x1F"
SeedInputs ==
    { <<>>,
      <<"a", "b", "c">>,
      <<"0">>,
      <<"-", "5">>,
      <<"4", "2">>,
      <<"4", "2", "a", "b", "c">>,
      <<"1", "2", ".", "7">>,
      <<"9", "9", "9", "9", "9", "9">>,
      <<"1", "0", "0", "0", "0", "0", "0">>,
      <<" ", "7">>,
      <<"0", "x", "1", "F">> }

\* generateFromSeed(): the value of the seed input is parsed; an accepted
\* seed makes an eyeball and clears the input, any other raises the alert
generateFromSeed(maxEyeballs) ==
    \E text \in SeedInputs :
      LET seed == parseInt(text)
      IN  IF SeedAccepted(seed)
             THEN /\ Len(instances) < maxEyeballs
                  /\ generateEyeballWithSeed(seed.value)
                  /\ seedForm' = [submitted |-> text, value |-> <<>>,
                                  alert |-> FALSE]
                  /\ UNCHANGED <<replay, streams, calls, rets>>
             ELSE /\ seedForm' = [submitted |-> text, value |-> text,
                                  alert |-> TRUE]
                  /\ UNCHANGED <<galleryVars, replay, streams, calls, rets>>

Next ==
    \/ generateSingleEye(GallerySeeds, MaxEyeballs)
    \/ animate(MaxGalleryFrames)
    \/ clearCollection

Spec == Init /\ [][Next]_vars

(***************************************************************************)
(* One eyeball, followed frame by frame.                                   *)
(***************************************************************************)
NextSolo ==
    \/ generateSingleEye(SoloSeeds, 1)
    \/ animate(MaxFrames)

SpecSolo == Init /\ [][NextSolo]_vars

(***************************************************************************)
(* One eyeball, followed frame by frame, the collection cleared at any     *)
(* point.                                                                  *)
(***************************************************************************)
NextCleared ==
    \/ generateSingleEye(RenderSeeds, 1)
    \/ animate(MaxFrames)
    \/ clearCollection

SpecCleared == Init /\ [][NextCleared]_vars

(***************************************************************************)
(* One eyeball, each frame drawn a second time at the same elapsed time.   *)
(***************************************************************************)
\* the effect of a second eyeball.draw(ctx) on eyeball i that made frame;
\* replay keeps the calls of the draw before it
redrawn(i, frame) ==
    /\ replay' = [eyeball |-> i, ops |-> canvas[i].ops]
    /\ instances' = [instances EXCEPT ![i] = frame.this]
    /\ canvas' = [canvas EXCEPT ![i] =
                    [ops   |-> frame.ops,
                     saved |-> SavedAfter(@.saved, frame.ops)]]

\* draw(ctx) called again on an eyeball whose time is put back by the step
\* of line 390, so that both draws render the same elapsed time
redraw ==
    \E i \in 1..Len(instances) :
      /\ canvas[i].ops # <<>>
      /\ replay = NoReplay
      /\ redrawn(i, Eyeball_draw([instances[i] EXCEPT
                                    !.time = @ - FrameStep(instances[i])]))
      /\ UNCHANGED <<locals, eyeballs, animationLoops, pending, nextHandle,
                     streams, calls, rets, seedForm>>

NextRender ==
    \/ generateSingleEye(RenderSeeds, 1)
    \/ animate(MaxFrames)
    \/ redraw

SpecRender == Init /\ [][NextRender]_vars

(***************************************************************************)
(* The gallery filled from the seed input.                                 *)
(***************************************************************************)
NextForm ==
    \/ generateFromSeed(MaxEyeballs)
    \/ clearCollection

SpecForm == Init /\ [][NextForm]_vars

(***************************************************************************)
(* getColorName called on its own, on colours around every threshold of    *)
(* its tests.                                                              *)
(***************************************************************************)
\* channel values (hundredths): each threshold 50, 100, 150, 200 of lines
\* 319-335, 0.01 under it and 0.01 over it, and the ends of [0, 255]
ChannelValues ==
    {0, 4999, 5000, 5001, 9999, 10000, 10001, 14999, 15000, 15001, 19999,
     20000, 20001, 25500}

\* a call getColorName(rgb) about to be made, on any colour of the grid
InitNames ==
    /\ calls \in {<<[op |-> "getColorName", args |-> <<<<r, g, b>>>>]>> :
                    r \in ChannelValues, g \in ChannelValues,
                    b \in ChannelValues}
    /\ rets = <<>>
    /\ streams = <<>>
    /\ instances = <<>>
    /\ locals = <<>>
    /\ canvas = <<>>
    /\ eyeballs = <<>>
    /\ animationLoops = <<>>
    /\ pending = {}
    /\ nextHandle = 1
    /\ replay = NoReplay
    /\ seedForm = NoSubmission

\* the call returns: rets keeps what it returned
getColorName ==
    /\ rets = <<>>
    /\ rets' = <<Eyeball_getColorName(calls[1].args[1])>>
    /\ UNCHANGED <<galleryVars, replay, streams, calls, seedForm>>

NextNames == getColorName

SpecNames == InitNames /\ [][NextNames]_vars

(***************************************************************************)
(* Two SeededRandom streams driven on their own.                           *)
(***************************************************************************)
\* new SeededRandom(a) and new SeededRandom(b)
InitRng ==
    /\ streams \in {<< [rng |-> SeededRandom(a), seed |-> a],
                       [rng |-> SeededRandom(b), seed |-> b] >> :
                      a \in StreamSeeds, b \in StreamSeeds}
    /\ calls = <<<<>>, <<>>>>
    /\ rets = <<<<>>, <<>>>>
    /\ instances = <<>>
    /\ locals = <<>>
    /\ canvas = <<>>
    /\ eyeballs = <<>>
    /\ animationLoops = <<>>
    /\ pending = {}
    /\ nextHandle = 1
    /\ replay = NoReplay
    /\ seedForm = NoSubmission

\* the argument lists tried
RangeArgs == {<<0, 100>>, <<-3000, 3000>>}
IntArgs == {<<0, 5>>, <<4194304, 4194304>>}
ChoiceArgs == {<<Styles>>}
BooleanArgs == {<<ProbGlow>>}

\* a method call on stream i that produced result: the call is recorded with
\* the seed field it found, the result with the seed field it left
called(i, op, args, result) ==
    /\ Len(calls[i]) < MaxCalls
    /\ streams' = [streams EXCEPT ![i].rng = result.rng]
    /\ calls' = [calls EXCEPT ![i] =
                   Append(@, [op |-> op, args |-> args,
                              seed |-> streams[i].rng.seed])]
    /\ rets' = [rets EXCEPT ![i] =
                  Append(@, [value |-> result.value,
                             seed |-> result.rng.seed])]
    /\ UNCHANGED <<galleryVars, replay, seedForm>>

next ==
    \E i \in 1..Len(streams) :
      called(i, "next", <<>>, SeededRandom_next(streams[i].rng))

range ==
    \E i \in 1..Len(streams) : \E a \in RangeArgs :
      called(i, "range", a, SeededRandom_range(streams[i].rng, a[1], a[2]))

int ==
    \E i \in 1..Len(streams) : \E a \in IntArgs :
      called(i, "int", a, SeededRandom_int(streams[i].rng, a[1], a[2]))

choice ==
    \E i \in 1..Len(streams) : \E a \in ChoiceArgs :
      called(i, "choice", a, SeededRandom_choice(streams[i].rng, a[1]))

boolean ==
    \E i \in 1..Len(streams) : \E a \in BooleanArgs :
      called(i, "boolean", a, SeededRandom_boolean(streams[i].rng, a[1]))

NextRng ==
    \/ next
    \/ range
    \/ int
    \/ choice
    \/ boolean

SpecRng == InitRng /\ [][NextRng]_vars

(***************************************************************************)
(* Properties.                                                             *)
(***************************************************************************)

\* C1: two streams constructed with the same initial seed and driven through
\* the same sequence of next/range/int/choice/boolean calls return identical
\* values at every step; the only state a call reads or writes is the
\* stream's own seed field: a call's result is a function of the method, its
\* arguments and the seed field it found, a stream has no other field, and
\* between two calls on a stream nothing changes its seed.
C1_StreamsDeterministic ==
    LET Ids == 1..Len(streams)
        SameCall(c, d) == c.op = d.op /\ c.args = d.args
    IN  /\ \A i \in Ids, j \in Ids :
             streams[i].seed = streams[j].seed =>
               \A k \in 1..Len(calls[i]) :
                 (/\ k <= Len(calls[j])
                  /\ \A m \in 1..k : SameCall(calls[i][m], calls[j][m]))
                 => rets[i][k] = rets[j][k]
        /\ \A i \in Ids, j \in Ids :
             \A k \in 1..Len(calls[i]), l \in 1..Len(calls[j]) :
               (/\ SameCall(calls[i][k], calls[j][l])
                /\ calls[i][k].seed = calls[j][l].seed)
               => rets[i][k] = rets[j][l]
        /\ \A i \in Ids :
             /\ DOMAIN streams[i].rng = {"seed"}
             /\ \A k \in 1..Len(calls[i]) :
                  calls[i][k].seed =
                    IF k = 1 THEN SeededRandom(streams[i].seed).seed
                             ELSE rets[i][k - 1].seed
             /\ streams[i].rng.seed =
                  IF calls[i] = <<>> THEN SeededRandom(streams[i].seed).seed
                                     ELSE rets[i][Len(calls[i])].seed

\* two streams of one seed, each after choice(array) then boolean(p)
C1_TwinsDriven ==
    /\ Len(streams) = 2
    /\ streams[1].seed = streams[2].seed
    /\ \A i \in 1..2 :
         /\ Len(calls[i]) >= 2
         /\ calls[i][1].op = "choice"
         /\ calls[i][2].op = "boolean"

\* C2: for every seed, two Eyeball objects constructed from it are equal
\* field by field as the constructor leaves them (the attributes, the stream,
\* the local power level) and carry the same ordered trait list, scores
\* included.
C2_TwinsAgree ==
    \A i \in 1..Len(instances), j \in 1..Len(instances) :
      instances[i].seed = instances[j].seed =>
        /\ locals[i] = locals[j]
        /\ instances[i].metadata.traits = instances[j].metadata.traits

\* seed 42 constructed twice, one of the two drawn and the other not
C2_Seed42Twice ==
    /\ Len(instances) = 2
    /\ instances[1].seed = 42
    /\ instances[2].seed = 42
    /\ instances[1].time > 0
    /\ instances[2].time = 0

\* C3: rendering the same eyeball twice at the same elapsed-time value emits
\* the identical sequence of drawing primitives with identical arguments,
\* for every flag combination and sclera texture.
C3_RenderIdempotent ==
    replay.eyeball # 0 => canvas[replay.eyeball].ops = replay.ops

\* C4: no draw call advances the instance's random stream: the stream after
\* any number of draw calls is the stream at the end of construction.
C4_StreamAtRest ==
    \A i \in 1..Len(instances) : instances[i].rng = locals[i].constructed.rng

\* C5: after construction no sequence of draw calls changes an attribute
\* field of the eyeball (shapes, sizes, colors, texture, pattern, the five
\* flags, effect/laser/aura colors, style, intensity, animationEnergy,
\* animationSpeed, seed) or an entry of metadata.traits.
C5_AttributesFrozen ==
    LET Fields ==
          {"socketShape", "socketSize", "socketColor", "scleraColor",
           "scleraTexture", "irisSize", "irisShape", "irisColor1",
           "irisColor2", "irisPattern", "pupilSize", "pupilShape",
           "pupilColor", "hasGlow", "hasLaser", "hasAura", "hasParticles",
           "hasLightning", "animationEnergy", "effectColor", "laserColor",
           "auraColor", "style", "intensity", "animationSpeed", "seed",
           "metadata"}
    IN  \A i \in 1..Len(instances) :
          /\ Fields \subseteq DOMAIN instances[i]
          /\ \A f \in Fields : instances[i][f] = locals[i].constructed[f]

\* an eyeball with lightning after a frame that advanced its stream
C5_DrawnWithLightning ==
    \E i \in 1..Len(instances) :
      /\ instances[i].hasLightning
      /\ instances[i].time > 0
      /\ instances[i].rng # locals[i].constructed.rng

\* C6: in every draw call the passes run in the order background, glow,
\* aura, socket, sclera, iris, pupil, highlights, laser, particles,
\* lightning; the background is painted exactly once and first; glow, aura,
\* laser, particles and lightning run iff their flag is set while socket,
\* sclera, iris, pupil and highlights always run; every primitive of laser,
\* particles and lightning comes after every primitive of the other passes.
C6_PassOrder ==
    \A i \in 1..Len(instances) :
      canvas[i].ops # <<>> =>
        LET ops == canvas[i].ops
            this == instances[i]
            Rank(name) ==
              CASE name = "background" -> 1
                [] name = "glow"       -> 2
                [] name = "aura"       -> 3
                [] name = "socket"     -> 4
                [] name = "sclera"     -> 5
                [] name = "iris"       -> 6
                [] name = "pupil"      -> 7
                [] name = "highlights" -> 8
                [] name = "laser"      -> 9
                [] name = "particles"  -> 10
                [] name = "lightning"  -> 11
            Ran(name) == \E k \in 1..Len(ops) : ops[k][1] = name
        IN  /\ \A k \in 1..(Len(ops) - 1) :
                 Rank(ops[k][1]) <= Rank(ops[k + 1][1])
            /\ ops[1][1] = "background"
            /\ \A k \in 2..Len(ops) : ops[k][1] # "background"
            /\ Ran("glow") <=> this.hasGlow
            /\ Ran("aura") <=> this.hasAura
            /\ Ran("laser") <=> this.hasLaser
            /\ Ran("particles") <=> this.hasParticles
            /\ Ran("lightning") <=> this.hasLightning
            /\ Ran("socket") /\ Ran("sclera") /\ Ran("iris")
            /\ Ran("pupil") /\ Ran("highlights")
            /\ \A k \in 1..(Len(ops) - 1) :
                 Rank(ops[k][1]) >= 9 => Rank(ops[k + 1][1]) >= 9

\* a frame of an eyeball with all five flags set
C6_AllFlagsDrawn ==
    \E i \in 1..Len(instances) :
      /\ canvas[i].ops # <<>>
      /\ instances[i].hasGlow /\ instances[i].hasAura
      /\ instances[i].hasLaser /\ instances[i].hasParticles
      /\ instances[i].hasLightning

\* C7: every draw call returns with the saved-state stack at the depth it
\* had on entry: over the calls of the frame the pushes and pops cancel, the
\* depth never goes below the entry depth, and the context's stack is empty
\* between frames; the early return of the laser pass included.
C7_StackBalanced ==
    \A i \in 1..Len(canvas) :
      LET profile == StackProfile(canvas[i].ops, 1, Len(canvas[i].ops))
      IN  /\ profile.net = 0
          /\ profile.low = 0
          /\ canvas[i].saved = 0

\* a frame whose laser pass took the early return: push, the two
\* translations and pop are all it drew
C7_LaserDematerialized ==
    \E i \in 1..Len(instances) :
      /\ instances[i].hasLaser
      /\ Cardinality({k \in 1..Len(canvas[i].ops) :
                        canvas[i].ops[k][1] = "laser"}) = 4

\* C8: metadata.traits has exactly 6 entries named, in order, Portal Frame,
\* Sclera Essence, Iris Constellation, Pupil Gate, Arcane Powers, Essence
\* Type, whatever the flags; exactly one entry is named Arcane Powers.
C8_SixTraits ==
    \A i \in 1..Len(instances) :
      LET traits == instances[i].metadata.traits
      IN  /\ Len(traits) = 6
          /\ [k \in 1..6 |-> traits[k].name] =
               <<"Portal Frame", "Sclera Essence", "Iris Constellation",
                 "Pupil Gate", "Arcane Powers", "Essence Type">>
          /\ Cardinality({k \in 1..6 : traits[k].name = "Arcane Powers"}) = 1

\* an eyeball with no flag set and its six traits
C8_NoPowerSixTraits ==
    \E i \in 1..Len(instances) :
      /\ ~ instances[i].hasGlow /\ ~ instances[i].hasLaser
      /\ ~ instances[i].hasAura /\ ~ instances[i].hasParticles
      /\ ~ instances[i].hasLightning
      /\ Len(instances[i].metadata.traits) = 6

\* C9: when the five flags are all false the Arcane Powers value is exactly
\* "Pure Essence (1.0)"; when a flag is true the value is not that
\* placeholder and its join is not empty.
C9_PowersFallback ==
    \A i \in 1..Len(instances) :
      LET this == instances[i]
          none == ~ (this.hasGlow \/ this.hasLaser \/ this.hasAura
                       \/ this.hasParticles \/ this.hasLightning)
          value == this.metadata.traits[5].value
          placeholder == [words |-> <<"Pure Essence">>, sep |-> " ",
                          score |-> 10]
      IN  /\ this.metadata.traits[5].name = "Arcane Powers"
          /\ none => value = placeholder
          /\ ~ none => (value # placeholder /\ value.words # <<>>)

\* an eyeball with no flag set whose Arcane Powers value reads Pure Essence
C9_PureEssence ==
    \E i \in 1..Len(instances) :
      /\ ~ (instances[i].hasGlow \/ instances[i].hasLaser
              \/ instances[i].hasAura \/ instances[i].hasParticles
              \/ instances[i].hasLightning)
      /\ instances[i].metadata.traits[5].value.words = <<"Pure Essence">>

\* C10: with k >= 1 flags set the Arcane Powers value lists exactly the
\* labels of the set flags, each once, in the order Ethereal Glow, Laser
\* Beam, Energy Aura, Particle Storm, Lightning Strike, joined by " + "; the
\* unrounded score lies in [2k, 2k + 2) (hundredths: [200k, 200k + 200)) and
\* the value prints it to one decimal.
C10_PowersListed ==
    \A i \in 1..Len(instances) :
      LET this == instances[i]
          flags == <<this.hasGlow, this.hasLaser, this.hasAura,
                     this.hasParticles, this.hasLightning>>
          labels == <<"Ethereal Glow", "Laser Beam", "Energy Aura",
                      "Particle Storm", "Lightning Strike">>
          set == {n \in 1..5 : flags[n]}
          k == Cardinality(set)
          value == this.metadata.traits[5].value
          powerLevel == locals[i].powerLevel
      IN  k >= 1 =>
            /\ Len(value.words) = k
            /\ \A m \in 1..k :
                 \E n \in set :
                   /\ Cardinality({q \in set : q < n}) = m - 1
                   /\ value.words[m] = labels[n]
            /\ value.sep = " + "
            /\ 200 * k <= powerLevel
            /\ powerLevel < 200 * k + 200
            /\ value.score = (powerLevel + 5) \div 10

\* an eyeball with all five flags set and its five labels
C10_FivePowers ==
    \E i \in 1..Len(instances) :
      /\ instances[i].hasGlow /\ instances[i].hasLaser
      /\ instances[i].hasAura /\ instances[i].hasParticles
      /\ instances[i].hasLightning
      /\ Len(instances[i].metadata.traits[5].value.words) = 5
      /\ locals[i].powerLevel >= 1000

\* C11: socketSize lies in [80, 140], irisSize in [40, 80], pupilSize in
\* [15, 35] (hundredths), animationEnergy in [0.1, 1.0], intensity in
\* [0.5, 1.5] (1/10000), and each of the three channels of each of the 8
\* generated colors lies in [0, 255] (hundredths).
C11_AttributeRanges ==
    \A i \in 1..Len(instances) :
      LET this == instances[i]
          Between(lo, x, hi) == lo <= x /\ x <= hi
      IN  /\ Between(8000, this.socketSize, 14000)
          /\ Between(4000, this.irisSize, 8000)
          /\ Between(1500, this.pupilSize, 3500)
          /\ Between(1000, this.animationEnergy, 10000)
          /\ Between(5000, this.intensity, 15000)
          /\ \A f \in {"socketColor", "scleraColor", "irisColor1",
                       "irisColor2", "pupilColor", "effectColor",
                       "laserColor", "auraColor"} :
               /\ Len(this[f]) = 3
               /\ \A c \in 1..3 : Between(0, this[f][c], 25500)

\* an eyeball with a channel clamped at 255 and a channel clamped at 0
C11_BothClamps ==
    \E i \in 1..Len(instances) :
      /\ \E f \in {"scleraColor", "irisColor1", "irisColor2", "pupilColor",
                   "effectColor", "laserColor", "auraColor"} :
           \E c \in 1..3 : instances[i][f][c] = 25500
      /\ \E f \in {"socketColor", "irisColor1", "irisColor2", "pupilColor",
                   "effectColor", "laserColor", "auraColor"} :
           \E c \in 1..3 : instances[i][f][c] = 0

\* C12: construction consumes the stream in the order socket shape, socket
\* size, socket color, sclera color, sclera texture, iris size, iris shape,
\* iris color 1, iris color 2, iris pattern, pupil size, pupil shape, pupil
\* color, glow, laser, aura, particles, lightning, animation energy, effect
\* color, laser color, aura color, style, intensity, a color taking 4
\* consecutive draws (palette entry, then R, G, B jitter): with w the first
\* 48 values of the stream of the seed, every attribute is the function of
\* the values at its own positions.
C12_DrawOrder ==
    LET Pick(w, p, array) == array[Scaled(w[p], 0, Len(array)) + 1]
        Channel(w, p, base) ==
          constrain(base * 100 + Scaled(w[p], -3000, 3000), 0, 25500)
        Colour(w, p, palette) ==
          << Channel(w, p + 1, Pick(w, p, palette)[1]),
             Channel(w, p + 2, Pick(w, p, palette)[2]),
             Channel(w, p + 3, Pick(w, p, palette)[3]) >>
        InOrder(this, w) ==
          /\ this.socketShape = Pick(w, 1, SocketShapes)
          /\ this.socketSize = Scaled(w[2], 8000, 14000)
          /\ this.socketColor = Colour(w, 3, colorPalettes.socket)
          /\ this.scleraColor = Colour(w, 7, colorPalettes.sclera)
          /\ this.scleraTexture = Pick(w, 11, ScleraTextures)
          /\ this.irisSize = Scaled(w[12], 4000, 8000)
          /\ this.irisShape = Pick(w, 13, IrisShapes)
          /\ this.irisColor1 = Colour(w, 14, colorPalettes.iris)
          /\ this.irisColor2 = Colour(w, 18, colorPalettes.iris)
          /\ this.irisPattern = Pick(w, 22, IrisPatterns)
          /\ this.pupilSize = Scaled(w[23], 1500, 3500)
          /\ this.pupilShape = Pick(w, 24, PupilShapes)
          /\ this.pupilColor = Colour(w, 25, colorPalettes.pupil)
          /\ this.hasGlow = WordLess(w[29], ProbGlow)
          /\ this.hasLaser = WordLess(w[30], ProbLaser)
          /\ this.hasAura = WordLess(w[31], ProbAura)
          /\ this.hasParticles = WordLess(w[32], ProbParticles)
          /\ this.hasLightning = WordLess(w[33], ProbLightning)
          /\ this.animationEnergy = Scaled(w[34], 1000, 10000)
          /\ this.effectColor = Colour(w, 35, colorPalettes.effect)
          /\ this.laserColor = Colour(w, 39, colorPalettes.laser)
          /\ this.auraColor = Colour(w, 43, colorPalettes.aura)
          /\ this.style = Pick(w, 47, Styles)
          /\ this.intensity = Scaled(w[48], 5000, 15000)
    IN  \A i \in 1..Len(instances) :
          InOrder(instances[i],
                  StreamWords(SeededRandom(instances[i].seed), 48))

\* an eyeball with lightning and without glow: the first and the last of the
\* five flag positions told apart
C12_LightningNoGlow ==
    \E i \in 1..Len(instances) :
      /\ instances[i].hasLightning
      /\ ~ instances[i].hasGlow
      /\ instances[i].socketColor # instances[i].scleraColor

\* C13: each next() sets the state to (state * 1664525 + 1013904223) mod
\* 2^32 and returns state / 2^32; the state stays an integer in [0, 2^32)
\* and the value v satisfies 0 <= v < 1.  The recurrence is computed here on
\* the four bytes of the state: with a and b the bytes of the multiplier and
\* of the state, the product mod 2^32 is the sum of a[j] * b[i] * 256^(i+j)
\* over i + j <= 3.
C13_Recurrence ==
    LET a0 == 1664525 % 256
        a1 == (1664525 \div 256) % 256
        a2 == 1664525 \div 65536
        c0 == 1013904223 % 65536
        c1 == 1013904223 \div 65536
        Byte(s, n) ==
          CASE n = 0 -> s[2] % 256
            [] n = 1 -> s[2] \div 256
            [] n = 2 -> s[1] % 256
            [] n = 3 -> s[1] \div 256
        T0(s) == Byte(s, 0) * a0
        T1(s) == Byte(s, 0) * a1 + Byte(s, 1) * a0
        T2(s) == Byte(s, 0) * a2 + Byte(s, 1) * a1 + Byte(s, 2) * a0
        T3(s) == Byte(s, 1) * a2 + Byte(s, 2) * a1 + Byte(s, 3) * a0
        Low(s) == T0(s) + 256 * (T1(s) % 256) + c0
        High(s) == (Low(s) \div 65536) + (T1(s) \div 256) + T2(s)
                     + 256 * (T3(s) % 256) + c1
        Recurrence(s) == <<High(s) % 65536, Low(s) % 65536>>
        IsState(s) ==
          /\ s[1] \in 0..65535
          /\ s[2] \in 0..65535
    IN  \A i \in 1..Len(streams) :
          /\ IsState(streams[i].rng.seed)
          /\ \A k \in 1..Len(calls[i]) :
               /\ IsState(calls[i][k].seed)
               /\ IsState(rets[i][k].seed)
               /\ calls[i][k].op = "next" =>
                    /\ rets[i][k].seed = Recurrence(calls[i][k].seed)
                    /\ rets[i][k].value = rets[i][k].seed

\* a next() call on a state of 2^31 or more, where the product exceeds 2^52
C13_NextOnHighState ==
    \E i \in 1..Len(streams) : \E k \in 1..Len(calls[i]) :
      /\ calls[i][k].op = "next"
      /\ calls[i][k].seed[1] >= 32768
      /\ k > 1

\* C14: a single call of range, int, choice or boolean advances the stream
\* by exactly one next() step, for every argument; after n calls the state
\* of the stream is the state after n next() calls on its initial seed.
C14_OneStepPerCall ==
    \A i \in 1..Len(streams) :
      /\ \A k \in 1..Len(calls[i]) :
           rets[i][k].seed
             = SeededRandom_next([seed |-> calls[i][k].seed]).rng.seed
      /\ Len(calls[i]) >= 1 =>
           streams[i].rng.seed
             = StreamWords(SeededRandom(streams[i].seed),
                           Len(calls[i]))[Len(calls[i])]

\* a stream after a choice and a boolean call
C14_ChoiceThenBoolean ==
    \E i \in 1..Len(streams) :
      /\ Len(calls[i]) >= 2
      /\ calls[i][1].op = "choice"
      /\ calls[i][2].op = "boolean"
      /\ streams[i].rng.seed = rets[i][Len(calls[i])].seed

\* C15: int(min, max) returns an integer r with min <= r <= max, and
\* choice returns an element of its array.
C15_IntInRange ==
    \A i \in 1..Len(streams) : \A k \in 1..Len(calls[i]) :
      /\ calls[i][k].op = "int" =>
           /\ calls[i][k].args[1] <= rets[i][k].value
           /\ rets[i][k].value <= calls[i][k].args[2]
      /\ calls[i][k].op = "choice" =>
           \E n \in 1..Len(calls[i][k].args[1]) :
             rets[i][k].value = calls[i][k].args[1][n]

C17_NoSharedState ==
    /\ [](\A i \in 1..Len(instances), j \in 1..Len(instances) :
            (/\ instances[i].seed = instances[j].seed
             /\ instances[i].time = instances[j].time)
            => (instances[i] = instances[j] /\ canvas[i] = canvas[j]))
    /\ [][\A i \in 1..Len(instances) :
            instances'[i] # instances[i] =>
              \A j \in 1..Len(instances) :
                j # i => (instances'[j] = instances[j]
                            /\ canvas'[j] = canvas[j])]_vars

\* two eyeballs of one seed with a veined sclera, one drawn and one not:
\* the stream of the first has advanced, that of the second has not
C17_OneTwinDrawn ==
    \E i \in 1..Len(instances), j \in 1..Len(instances) :
      /\ instances[i].seed = instances[j].seed
      /\ instances[i].scleraTexture = "veined"
      /\ instances[i].time > 0
      /\ instances[j].time = 0
      /\ instances[i].rng # instances[j].rng

\* C18: every value that socketShape (6), scleraTexture (5), irisPattern
\* (7), pupilShape (7) and style (7) can take has an entry in its lookup
\* table, within each table distinct values have distinct labels, and the
\* label in the trait of an eyeball is the entry of its attribute, never
\* undefined.
C18_LabelsBijective ==
    LET Covered(values, table) ==
          \A k \in 1..Len(values) : values[k] \in DOMAIN table
        Distinct(values, table) ==
          \A k \in 1..Len(values), l \in 1..Len(values) :
            k # l => (values[k] # values[l]
                        /\ table[values[k]] # table[values[l]])
        Bijective(values, n, table) ==
          /\ Len(values) = n
          /\ Covered(values, table)
          /\ Distinct(values, table)
        Label(trait) == trait.value.words[Len(trait.value.words)]
    IN  /\ Bijective(SocketShapes, 6, portalTypes)
        /\ Bijective(ScleraTextures, 5, scleraNames)
        /\ Bijective(IrisPatterns, 7, irisPatterns)
        /\ Bijective(PupilShapes, 7, pupilTypes)
        /\ Bijective(Styles, 7, essenceTypes)
        /\ \A i \in 1..Len(instances) :
             LET this == instances[i]
                 traits == this.metadata.traits
             IN  /\ Label(traits[1]) = portalTypes[this.socketShape]
                 /\ Label(traits[2]) = scleraNames[this.scleraTexture]
                 /\ Label(traits[3]) = irisPatterns[this.irisPattern]
                 /\ Label(traits[4]) = pupilTypes[this.pupilShape]
                 /\ Label(traits[6]) = essenceTypes[this.style]
                 /\ \A n \in {1, 2, 3, 4, 6} : Label(traits[n]) # "undefined"

\* an eyeball with a cloudy sclera and its label
C18_CloudyLabelled ==
    \E i \in 1..Len(instances) :
      /\ instances[i].scleraTexture = "cloudy"
      /\ instances[i].metadata.traits[2].value.words[2] = "Ethereal Mist"

\* C19: generateFromSeed creates an eyeball only when the parsed input is
\* an integer in 1..999999, and then the eyeball has that seed; for any other
\* input (not a number, 0, negative, above 999999) it raises the alert and
\* leaves the gallery (the Eyeball objects, the eyeballs list, the
\* animationLoops list, the frames requested) unchanged; no Eyeball is
\* constructed from a rejected seed.
C19_SeedValidated ==
    /\ [](\A i \in 1..Len(instances) :
            instances[i].seed \in 1..999999)
    /\ [][(seedForm' # seedForm \/ Len(instances') > Len(instances)) =>
            LET parsed == parseInt(seedForm'.submitted)
            IN  IF /\ ~ parsed.nan
                   /\ parsed.value \in 1..999999
                   THEN /\ Len(instances') = Len(instances) + 1
                        /\ instances'[Len(instances')].seed = parsed.value
                        /\ Len(eyeballs') = Len(eyeballs) + 1
                        /\ ~ seedForm'.alert
                   ELSE /\ seedForm'.alert
                        /\ instances' = instances
                        /\ eyeballs' = eyeballs
                        /\ animationLoops' = animationLoops
                        /\ pending' = pending
                        /\ canvas' = canvas]_vars

\* the input "1000000" rejected after "999999" was accepted: one eyeball,
\* the alert raised
C19_RejectedAfterAccepted ==
    /\ Len(instances) = 1
    /\ instances[1].seed = 999999
    /\ seedForm.alert
    /\ seedForm.submitted = <<"1", "0", "0", "0", "0", "0", "0">>

\* C20: clearCollection leaves the eyeballs list and the animationLoops list
\* empty, and after it no animate callback of a discarded eyeball runs: no
\* step draws an eyeball that is not in the eyeballs list, however many
\* frames were drawn before the clear.
C20_DiscardedNeverDrawn ==
    /\ [][eyeballs # <<>> /\ eyeballs' = <<>> => animationLoops' = <<>>]_vars
    /\ [][\A i \in 1..Len(instances) :
            (instances'[i] # instances[i] \/ canvas'[i] # canvas[i])
              => \E k \in 1..Len(eyeballs) : eyeballs[k] = i]_vars

\* C21: in a frame of an eyeball with hasLaser where the materialization
\* phase is below the threshold 0.2 the laser pass makes only push, its two
\* translate calls and pop: no stroke, fill or shape call; in a frame where
\* the phase is at or above 0.2 it strokes 2 beams, each 6 times (stroke,
\* strokeWeight, beginShape, noFill, 11 vertex calls, endShape), the six
\* strokes of a beam over the same 11 points.
C21_LaserGate ==
    \A i \in 1..Len(instances) :
      (instances[i].hasLaser /\ canvas[i].ops # <<>>) =>
        LET IsLaser(op) == op[1] = "laser"
            laser   == SelectSeq(canvas[i].ops, IsLaser)
            names   == [k \in 1..Len(laser) |-> laser[k][2]]
            strokes == {k \in 1..Len(laser) : names[k] = "stroke"}
            first   == CHOOSE k \in strokes : \A m \in strokes : k <= m
            Points(k) == SubSeq(laser, k + 4, k + 14)
        IN  IF materializationPhase(instances[i]) < materializationThreshold
               THEN names = <<"push", "translate", "translate", "pop">>
               ELSE /\ strokes = {first + 16 * s : s \in 0..11}
                    /\ \A k \in strokes :
                         /\ SubSeq(names, k, k + 3) =
                              <<"stroke", "strokeWeight", "beginShape",
                                "noFill">>
                         /\ \A v \in (k + 4)..(k + 14) : names[v] = "vertex"
                         /\ names[k + 15] = "endShape"
                    /\ Cardinality({k \in 1..Len(laser) :
                                      names[k] = "vertex"}) = 132
                    /\ Cardinality({k \in 1..Len(laser) :
                                      names[k] = "beginShape"}) = 12
                    /\ \A s \in 0..5 :
                         /\ Points(first + 16 * s) = Points(first)
                         /\ Points(first + 16 * (s + 6)) = Points(first + 96)
                    /\ Points(first) # Points(first + 96)

\* an eyeball with a laser seen in a frame below the threshold after frames
\* above it
C21_BeamsThenNone ==
    \E i \in 1..Len(instances) :
      /\ instances[i].hasLaser
      /\ canvas[i].ops # <<>>
      /\ instances[i].time > 2 * FrameStep(instances[i])
      /\ materializationPhase(instances[i]) < materializationThreshold
      /\ materializationPhase([instances[i] EXCEPT
                                 !.time = FrameStep(instances[i])])
           >= materializationThreshold

\* C22: the laser-coloured glow overlay of the iris and of the pupil follows
\* the laser pass: in a frame where either overlay is drawn (the pass makes
\* more calls than it makes for the same eyeball without a laser), hasLaser
\* is set and the laser pass of that frame strokes its beams instead of
\* taking the early exit; both overlays are drawn in the same frames; no
\* overlay is drawn when hasLaser is false or the laser is dematerialized.
C22_OverlaySynchronized ==
    \A i \in 1..Len(instances) :
      canvas[i].ops # <<>> =>
        LET this  == instances[i]
            ops   == canvas[i].ops
            plain == [this EXCEPT !.hasLaser = FALSE]
            Calls(name) == Cardinality({k \in 1..Len(ops) : ops[k][1] = name})
            irisOverlay  == Calls("iris") # Len(Eyeball_drawIris(plain))
            pupilOverlay == Calls("pupil") # Len(Eyeball_drawPupil(plain))
            beams == \E k \in 1..Len(ops) :
                       ops[k][1] = "laser" /\ ops[k][2] = "stroke"
        IN  /\ (irisOverlay \/ pupilOverlay) => (this.hasLaser /\ beams)
            /\ irisOverlay <=> pupilOverlay
            /\ ~ this.hasLaser => ~ (irisOverlay \/ pupilOverlay)
            /\ materializationPhase(this) < materializationThreshold
                 => ~ (irisOverlay \/ pupilOverlay)

\* a frame with the overlay on iris and pupil, and the same eyeball in a
\* later frame without it, its laser dematerialized
C22_OverlayOnThenOff ==
    \E i \in 1..Len(instances) :
      LET this  == instances[i]
          plain == [this EXCEPT !.hasLaser = FALSE]
          first == [this EXCEPT !.time = FrameStep(this)]
      IN  /\ this.hasLaser
          /\ canvas[i].ops # <<>>
          /\ Len(Eyeball_drawIris(first)) > Len(Eyeball_drawIris(plain))
          /\ this.time > FrameStep(this)
          /\ Cardinality({k \in 1..Len(canvas[i].ops) :
                            canvas[i].ops[k][1] = "iris"})
               = Len(Eyeball_drawIris(plain))
          /\ materializationPhase(this) < materializationThreshold

\* C23: every effect the Arcane Powers trait lists (Ethereal Glow, Laser
\* Beam, Energy Aura, Particle Storm, Lightning Strike) is visible in every
\* frame of the eyeball: its pass makes at least one call that paints
\* (ellipse, line, rect, triangle or a stroked shape); and no effect pass
\* makes a call for an eyeball whose trait does not list the effect.
C23_PowersVisible ==
    \A i \in 1..Len(instances) :
      canvas[i].ops # <<>> =>
        LET ops    == canvas[i].ops
            listed == instances[i].metadata.traits[5].value.words
            Listed(label) == \E m \in 1..Len(listed) : listed[m] = label
            Paints(name) ==
              \E k \in 1..Len(ops) :
                /\ ops[k][1] = name
                /\ ops[k][2] \in {"ellipse", "line", "rect", "triangle",
                                  "endShape"}
            Runs(name) == \E k \in 1..Len(ops) : ops[k][1] = name
            effects == << <<"Ethereal Glow", "glow">>,
                          <<"Laser Beam", "laser">>,
                          <<"Energy Aura", "aura">>,
                          <<"Particle Storm", "particles">>,
                          <<"Lightning Strike", "lightning">> >>
        IN  \A e \in 1..5 :
              IF Listed(effects[e][1]) THEN Paints(effects[e][2])
                                       ELSE ~ Runs(effects[e][2])

\* C24 as stated: the void iris pattern draws exactly 20 concentric discs,
\* largest first and smallest last, in iris color 1 for an even index and
\* black for an odd one, the largest disc the most transparent and the
\* smallest the most opaque (alpha increases as size decreases).
C24_VoidDiscsLargeTransparent ==
    \A n \in 1..Len(instances) :
      (instances[n].irisPattern = "void" /\ canvas[n].ops # <<>>) =>
        LET this == instances[n]
            IsIris(op) == op[1] = "iris"
            iris == SelectSeq(canvas[n].ops, IsIris)
            FillOf(k) == iris[2 + 2 * k]
            Disc(k)   == iris[3 + 2 * k]
        IN  /\ Cardinality({k \in 4..Len(iris) : iris[k][2] = "ellipse"}) >= 20
            /\ \A k \in 1..20 :
                 /\ FillOf(k)[2] = "fill"
                 /\ Disc(k)[2] = "ellipse"
                 /\ <<Disc(k)[3], Disc(k)[4]>> = <<0, 0>>
                 /\ Disc(k)[5] = Disc(k)[6]
                 /\ SubSeq(FillOf(k), 3, 5) =
                      (IF (21 - k) % 2 = 0 THEN this.irisColor1
                                           ELSE <<0, 0, 0>>)
            /\ \A k \in 1..19 :
                 /\ Disc(k)[5] > Disc(k + 1)[5]
                 /\ FillOf(k)[6] < FillOf(k + 1)[6]

\* C24, amended: the void iris pattern draws exactly 20 concentric discs,
\* largest first and smallest last, in iris color 1 for an even index and
\* black for an odd one; disc i of 20..1 has diameter irisSize * i / 20 and
\* alpha 255 * i / 20, so the largest disc is the most opaque and the
\* smallest the most transparent (alpha decreases as size decreases).
C24_VoidDiscsFade ==
    \A n \in 1..Len(instances) :
      (instances[n].irisPattern = "void" /\ canvas[n].ops # <<>>) =>
        LET this == instances[n]
            IsIris(op) == op[1] = "iris"
            iris == SelectSeq(canvas[n].ops, IsIris)
            FillOf(k) == iris[2 + 2 * k]
            Disc(k)   == iris[3 + 2 * k]
            pattern == {k \in 4..43 : iris[k][2] = "ellipse"}
        IN  /\ Cardinality(pattern) = 20
            /\ \A k \in 1..20 :
                 /\ FillOf(k)[2] = "fill"
                 /\ Disc(k) = <<"iris", "ellipse", 0, 0,
                                (this.irisSize * (21 - k)) \div 20,
                                (this.irisSize * (21 - k)) \div 20>>
                 /\ SubSeq(FillOf(k), 3, 5) =
                      (IF (21 - k) % 2 = 0 THEN this.irisColor1
                                           ELSE <<0, 0, 0>>)
                 /\ FillOf(k)[6] = (25500 * (21 - k)) \div 20
            /\ \A k \in 1..19 :
                 /\ Disc(k)[5] > Disc(k + 1)[5]
                 /\ FillOf(k)[6] > FillOf(k + 1)[6]
            /\ iris[44][2] # "ellipse"

\* a frame of an eyeball with the void iris pattern: the first disc opaque,
\* the twentieth at alpha 12.75
C24_VoidDrawn ==
    \E n \in 1..Len(instances) :
      /\ instances[n].irisPattern = "void"
      /\ \E k \in 1..(Len(canvas[n].ops) - 39) :
           /\ canvas[n].ops[k][1] = "iris"
           /\ canvas[n].ops[k][2] = "fill"
           /\ canvas[n].ops[k][6] = 25500
           /\ canvas[n].ops[k + 38][1] = "iris"
           /\ canvas[n].ops[k + 38][2] = "fill"
           /\ canvas[n].ops[k + 38][6] = 1275

\* C25: the fractal iris recursion terminates: it starts at depth 4 with
\* one disc of diameter irisSize / 2 at the centre, a layer draws nothing
\* when its size is below 5, each layer that draws has diameter 0.6 of the
\* layer above and four times its discs, so a frame has at most 4 layers and
\* 1 + 4 + 16 + 64 = 85 discs; and for every irisSize in [40, 80] (steps of
\* 1) the pattern makes 21 or 85 discs.
C25_FractalBounded ==
    \A n \in 1..Len(instances) :
      (instances[n].irisPattern = "fractal" /\ canvas[n].ops # <<>>) =>
        LET this == instances[n]
            IsIris(op) == op[1] = "iris"
            iris  == SelectSeq(canvas[n].ops, IsIris)
            discs == {k \in 5..Len(iris) :
                        /\ iris[k][2] = "ellipse"
                        /\ iris[k - 1][2] = "fill"
                        /\ iris[k - 1][6] = 15000}
            layer == [d \in 0..3 |->
                        CASE d = 0 -> this.irisSize \div 2
                          [] d = 1 -> ((this.irisSize \div 2) * 6) \div 10
                          [] d = 2 -> ((((this.irisSize \div 2) * 6) \div 10)
                                         * 6) \div 10
                          [] d = 3 -> ((((((this.irisSize \div 2) * 6) \div 10)
                                           * 6) \div 10) * 6) \div 10]
        IN  /\ Cardinality(discs) <= 85
            /\ iris[5] = <<"iris", "ellipse", 0, 0, layer[0], layer[0]>>
            /\ \A k \in discs :
                 /\ iris[k][5] >= 500
                 /\ iris[k][5] = iris[k][6]
                 /\ \E d \in 0..3 : iris[k][5] = layer[d]
            /\ \A d \in 0..3 :
                 Cardinality({k \in discs : iris[k][5] = layer[d]}) =
                   (IF layer[d] >= 500 THEN 4 ^ d ELSE 0)
            /\ \A size \in 40..80 :
                 Len(Eyeball_drawFractalPattern(
                       [this EXCEPT !.irisSize = size * 100]))
                   \in {2 * 21, 2 * 85}

\* a frame of a fractal iris whose fourth layer is under the floor: 21 discs
C25_FloorReached ==
    \E n \in 1..Len(instances) :
      /\ instances[n].irisPattern = "fractal"
      /\ instances[n].irisSize < 4630
      /\ Cardinality({k \in 1..Len(canvas[n].ops) :
                        /\ canvas[n].ops[k][1] = "iris"
                        /\ canvas[n].ops[k][2] = "ellipse"}) = 21

\* C26: getColorName is total and the first match wins: for a colour with
\* channels in [0, 255] it returns the label of the first test, in the order
\* Ivory, Obsidian, Crimson, Emerald, Sapphire, Golden, Amethyst, Turquoise,
\* Copper, Jade, Azure, Rose, Violet, Silver, Ruby, Verdant, Cobalt, that
\* holds, and "Mystic" iff none holds; and each of the labels is returned
\* for some colour (no test is shadowed by the tests before it).
C26_FirstMatchWins ==
    LET labels == <<"Ivory", "Obsidian", "Crimson", "Emerald", "Sapphire",
                    "Golden", "Amethyst", "Turquoise", "Copper", "Jade",
                    "Azure", "Rose", "Violet", "Silver", "Ruby", "Verdant",
                    "Cobalt">>
        Holds(n, r, g, b) ==
          CASE n = 1  -> r > 20000 /\ g > 20000 /\ b > 20000
            [] n = 2  -> r < 5000 /\ g < 5000 /\ b < 5000
            [] n = 3  -> r > 20000 /\ g < 10000 /\ b < 10000
            [] n = 4  -> r < 10000 /\ g > 20000 /\ b < 10000
            [] n = 5  -> r < 10000 /\ g < 10000 /\ b > 20000
            [] n = 6  -> r > 20000 /\ g > 20000 /\ b < 10000
            [] n = 7  -> r > 20000 /\ g < 10000 /\ b > 20000
            [] n = 8  -> r < 10000 /\ g > 20000 /\ b > 20000
            [] n = 9  -> r > 15000 /\ g > 10000 /\ b < 10000
            [] n = 10 -> r > 10000 /\ g > 15000 /\ b < 10000
            [] n = 11 -> r < 10000 /\ g > 10000 /\ b > 15000
            [] n = 12 -> r > 15000 /\ g < 10000 /\ b > 10000
            [] n = 13 -> r > 10000 /\ g < 10000 /\ b > 15000
            [] n = 14 -> r > 10000 /\ g > 10000 /\ b > 10000
            [] n = 15 -> r > 15000
            [] n = 16 -> g > 15000
            [] n = 17 -> b > 15000
        examples == << <<25500, 25500, 25500>>, <<0, 0, 0>>,
                       <<25500, 0, 0>>, <<0, 25500, 0>>, <<0, 0, 25500>>,
                       <<25500, 25500, 0>>, <<25500, 0, 25500>>,
                       <<0, 25500, 25500>>, <<15001, 10001, 0>>,
                       <<10001, 15001, 0>>, <<0, 10001, 15001>>,
                       <<15001, 0, 10001>>, <<10001, 0, 15001>>,
                       <<10001, 10001, 10001>>, <<15001, 5000, 5000>>,
                       <<5000, 15001, 5000>>, <<5000, 5000, 15001>> >>
    IN  /\ \A k \in 1..Len(rets) :
             LET rgb == calls[k].args[1]
                 matching == {n \in 1..17 :
                                Holds(n, rgb[1], rgb[2], rgb[3])}
             IN  /\ rets[k] \in {labels[n] : n \in 1..17} \cup {"Mystic"}
                 /\ \A n \in matching :
                      (\A m \in matching : n <= m) => rets[k] = labels[n]
                 /\ rets[k] = "Mystic" <=> matching = {}
        /\ \A n \in 1..17 : Eyeball_getColorName(examples[n]) = labels[n]

\* a colour that passes the tests of Copper, Silver and Ruby and is named
\* Copper
C26_CopperBeforeSilver ==
    /\ Len(rets) = 1
    /\ calls[1].args[1] = <<15001, 10001, 9999>>
    /\ rets[1] = "Copper"

\* C27: an eyeball made by generateEyeballWithSeed has at most one pending
\* animation-frame callback at any time; a step that draws an eyeball is the
\* run of its one pending callback, draws it once (one step of time) and
\* leaves exactly one pending callback for it, a new one; the number of
\* pending callbacks of an eyeball never grows.
C27_OnePendingFrame ==
    /\ [](\A i \in 1..Len(instances) :
            Cardinality({cb \in pending : cb.eyeball = i}) <= 1)
    /\ [][\A i \in 1..Len(instances) :
            LET before == {cb \in pending : cb.eyeball = i}
                after  == {cb \in pending' : cb.eyeball = i}
            IN  /\ Cardinality(after) <= Cardinality(before)
                /\ instances'[i] # instances[i] =>
                     /\ Cardinality(before) = 1
                     /\ Cardinality(after) = 1
                     /\ after \cap before = {}
                     /\ instances'[i].time
                          = instances[i].time + FrameStep(instances[i])]_vars

\* two eyeballs, each drawn once, each with its one successor pending
C27_TwoLoopsRunning ==
    /\ Len(instances) = 2
    /\ \A i \in 1..2 :
         /\ canvas[i].ops # <<>>
         /\ Cardinality({cb \in pending : cb.eyeball = i}) = 1
    /\ \A cb \in pending :
         \A k \in 1..Len(animationLoops) : animationLoops[k] # cb.id

\* C28: construction advances the stream by a number of draws that depends
\* on the flags: the attributes take the first 48 draws (socketSize the 2nd,
\* style the 47th, intensity the 48th), the Sclera Essence score the 49th,
\* the Arcane Powers bonus the 50th iff a flag is set, and animationSpeed the
\* next one (the 50th with no flag, the 51st otherwise), in [0.01, 0.05);
\* the stream is left right after that draw.
C28_ConstructionDraws ==
    \A i \in 1..Len(locals) :
      LET this  == locals[i].constructed
          words == StreamWords(SeededRandom(this.seed), 51)
          flags == {f \in {"hasGlow", "hasLaser", "hasAura", "hasParticles",
                           "hasLightning"} : this[f]}
          last  == IF flags = {} THEN 50 ELSE 51
      IN  /\ this.socketSize = Scaled(words[2], 8000, 14000)
          /\ this.style = Styles[MulShift(words[47], Len(Styles)) + 1]
          /\ this.intensity = Scaled(words[48], 5000, 15000)
          /\ this.metadata.traits[2].value.score
               = (Scaled(words[49], 100, 1000) + 5) \div 10
          /\ flags # {} =>
               locals[i].powerLevel
                 = 200 * Cardinality(flags) + Scaled(words[50], 0, 200)
          /\ this.animationSpeed = Scaled(words[last], 1000, 5000)
          /\ this.animationSpeed >= 1000
          /\ this.animationSpeed < 5000
          /\ this.rng.seed = words[last]
          /\ this.time = 0

\* an eyeball with no flag, its stream left at the 50th draw, and its first
\* frame drawn
C28_FiftyDraws ==
    \E i \in 1..Len(locals) :
      LET this == locals[i].constructed
      IN  /\ ~ (this.hasGlow \/ this.hasLaser \/ this.hasAura
                  \/ this.hasParticles \/ this.hasLightning)
          /\ this.rng.seed = StreamWords(SeededRandom(this.seed), 50)[50]
          /\ canvas[i].ops # <<>>

==========================================================================
